---- MODULE Spec2Model ----
(***************************************************************************)
(* Orchestration and durable-execution subsystem of the AIDEN backend:     *)
(* the orchestration engine, the HITL controller and service, the phase    *)
(* controller and the analysis ("ryan") agent graph.                       *)
(*                                                                         *)
(* One project with its four default phases is modelled.  Database rows    *)
(* are sequences indexed by their id (1..Len).  The checkpointer keeps     *)
(* one record per thread_id: the node that runs next and the state values. *)
(* execute/resume return the last state values streamed by the graph.      *)
(***************************************************************************)
EXTENDS Integers, Sequences, FiniteSets, TLC

\* ---------------------------------------------------------------- bounds
MaxExecutions == 2
MaxReviews == 2
MaxEvents == 5
MaxDecisions == 2
MaxInFlight == 2
MaxAmbiguities == 3
MaxDeliverables == 2
MaxVersions == 4
MaxSubscriptions == 3
MaxRevisions == 3
MaxConnections == 3

\* ------------------------------------------------------- Python's None
NoneStr == "None"
None == [none |-> TRUE]

\* ------------------------------------------------------ phase controller
PHASE_ORDER == <<"analysis", "design", "development", "testing">>

PHASE_AGENTS ==
  [analysis |-> "ryan", design |-> NoneStr, development |-> NoneStr, testing |-> NoneStr]

PhaseTypes == {PHASE_ORDER[i] : i \in 1..Len(PHASE_ORDER)}

PhaseIndex(phase_type) == CHOOSE i \in 1..Len(PHASE_ORDER) : PHASE_ORDER[i] = phase_type

\* variant: the order wraps around after its last phase
get_next_phase_Wraps(current_phase) ==
  IF current_phase \notin PhaseTypes THEN NoneStr
  ELSE PHASE_ORDER[(PhaseIndex(current_phase) % Len(PHASE_ORDER)) + 1]

\* variant: no phase has a successor
get_next_phase_None(current_phase) == NoneStr

get_next_phase(current_phase) ==
  IF current_phase \notin PhaseTypes THEN NoneStr
  ELSE IF PhaseIndex(current_phase) + 1 <= Len(PHASE_ORDER)
       THEN PHASE_ORDER[PhaseIndex(current_phase) + 1]
       ELSE NoneStr

get_agent_for_phase(phase_type) ==
  IF phase_type \in DOMAIN PHASE_AGENTS THEN PHASE_AGENTS[phase_type] ELSE NoneStr

\* variant: every phase of the order counts as ready
is_phase_ready_InOrder(phase_type) == phase_type \in PhaseTypes

is_phase_ready(phase_type) == get_agent_for_phase(phase_type) # NoneStr

\* phase types with a registered agent class (@register_agent)
AGENT_REGISTRY == {"analysis"}

\* ------------------------------------------------- analysis agent: data
\* what the model collaborator may return for extraction and detection
REQ1 == [id |-> "REQ-001", category |-> "functional", priority |-> "medium"]
REQ2 == [id |-> "REQ-002", category |-> "non_functional", priority |-> "low"]

RequirementLists == {<<REQ1, REQ2>>}

AMB1 == [requirement_id |-> "REQ-001", severity |-> "high"]

AmbiguityLists == {<<>>, <<AMB1>>}

\* nodes at which a collaborator call (RAG or model) raises: one before
\* the first interrupt point and one after the refinement
FailableNodes == {"extract_requirements", "generate_spec_document"}

NoFailure == "none"

\* outputs of the collaborators during one execute/resume and the node at
\* which a collaborator call raises (NoFailure: none does)
CollaboratorRuns ==
  [reqs : RequirementLists, ambs : AmbiguityLists, failAt : FailableNodes \cup {NoFailure}]

\* inputs of a review response
KnownDecisions == {"approved", "rejected", "revision_requested"}

Responses ==
  {[decision |-> "approved", feedback |-> NoneStr, edits |-> None],
   [decision |-> "rejected", feedback |-> NoneStr,
    edits |-> "REQ-001" :> [category |-> "security"]],
   [decision |-> "revision_requested", feedback |-> "fix it",
    edits |-> "REQ-001" :> [priority |-> "high"]],
   [decision |-> "deferred", feedback |-> "fix it", edits |-> None]}

\* ------------------------------------------------ analysis agent: graph
END == "__end__"
NoResume == [no_resume |-> TRUE]

HitlNodes == {"hitl_ambiguity_review", "hitl_final_review"}

\* dict.update / state merge: keys of upd overwrite, the others are kept
Merge(values, upd) ==
  [k \in (DOMAIN values) \cup (DOMAIN upd) |-> IF k \in DOMAIN upd THEN upd[k] ELSE values[k]]

IsFunctional(r) == r.category = "functional"
IsNonFunctional(r) == r.category = "non_functional"

\* all_reqs = {r["id"]: r for r in functional + non_functional}: a later
\* requirement with the same id replaces the earlier one, at its position
RECURSIVE DictById(_)
DictById(reqs) ==
  IF reqs = <<>> THEN <<>>
  ELSE LET init == DictById(SubSeq(reqs, 1, Len(reqs) - 1))
           last == reqs[Len(reqs)]
       IN IF \E i \in 1..Len(init) : init[i].key = last.id
          THEN [i \in 1..Len(init) |->
                  IF init[i].key = last.id THEN [key |-> last.id, val |-> last] ELSE init[i]]
          ELSE Append(init, [key |-> last.id, val |-> last])

ApplyEdits(entries, edits) ==
  [i \in 1..Len(entries) |->
     IF entries[i].key \in DOMAIN edits
     THEN Merge(entries[i].val, edits[entries[i].key])
     ELSE entries[i].val]

\* truth value of an optional dict: None and {} are false
Truthy(x) == x # None /\ x # <<>>

refine_requirements(state) ==
  LET feedback == state.hitl_feedback
      functional == state.functional_requirements
      non_functional == state.non_functional_requirements
  IN IF Truthy(feedback) /\ Truthy(feedback.edits)
     THEN LET all_reqs == ApplyEdits(DictById(functional \o non_functional), feedback.edits)
          IN [functional_requirements |-> SelectSeq(all_reqs, IsFunctional),
              non_functional_requirements |-> SelectSeq(all_reqs, IsNonFunctional),
              current_node |-> "refine_requirements"]
     ELSE [functional_requirements |-> functional,
           non_functional_requirements |-> non_functional,
           current_node |-> "refine_requirements"]

classify_requirements(state) ==
  [functional_requirements |-> SelectSeq(state.raw_requirements, IsFunctional),
   non_functional_requirements |-> SelectSeq(state.raw_requirements, IsNonFunctional),
   current_node |-> "classify_requirements"]

\* interrupt() returned review_result
hitl_ambiguity_review(state, review_result) ==
  IF state.ambiguities = <<>>
  THEN [hitl_status |-> "approved", current_node |-> "hitl_ambiguity_review"]
  ELSE [hitl_status |-> review_result.decision,
        hitl_feedback |-> review_result,
        current_node |-> "hitl_ambiguity_review"]

\* variant: the review result is not stored in the state
hitl_final_review_DropsResult(state, review_result) ==
  [hitl_status |-> "approved",
   hitl_feedback |-> None,
   current_node |-> "hitl_final_review"]

hitl_final_review(state, review_result) ==
  [hitl_status |-> review_result.decision,
   hitl_feedback |-> review_result,
   current_node |-> "hitl_final_review"]

generate_spec_document(state) ==
  LET all_requirements == state.functional_requirements \o state.non_functional_requirements
  IN [requirements_spec |->
        [title |-> "Requirements Specification", requirements |-> all_requirements],
      traceability_matrix |->
        [title |-> "Requirements Traceability Matrix",
         total_requirements |-> Len(all_requirements)],
      current_node |-> "generate_spec_document"]

finalize_deliverables(state) ==
  [phase_status |-> "completed", current_node |-> "finalize_deliverables"]

\* the partial update a node returns
NodeUpdate(node, state, review_result, run) ==
  CASE node = "load_document" -> [current_node |-> "load_document", phase_status |-> "running"]
    [] node = "retrieve_context" -> [current_node |-> "retrieve_context"]
    [] node = "extract_requirements" ->
         [raw_requirements |-> run.reqs, current_node |-> "extract_requirements"]
    [] node = "classify_requirements" -> classify_requirements(state)
    [] node = "detect_ambiguities" ->
         [ambiguities |-> run.ambs, current_node |-> "detect_ambiguities"]
    [] node = "hitl_ambiguity_review" -> hitl_ambiguity_review(state, review_result)
    [] node = "refine_requirements" -> refine_requirements(state)
    [] node = "build_traceability" -> [current_node |-> "build_traceability"]
    [] node = "generate_spec_document" -> generate_spec_document(state)
    [] node = "hitl_final_review" -> hitl_final_review(state, review_result)
    [] node = "finalize_deliverables" -> finalize_deliverables(state)

\* does the node call interrupt() in this state
CallsInterrupt(node, state) ==
  \/ node = "hitl_final_review"
  \/ node = "hitl_ambiguity_review" /\ state.ambiguities # <<>>

\* variant: always routes to the ambiguity review
_route_ambiguity_check_Always(state) == "needs_review"

_route_ambiguity_check(state) ==
  IF state.ambiguities # <<>> /\ Len(state.ambiguities) > 0 THEN "needs_review" ELSE "no_issues"

\* variant: the final review always sends the machine back to refinement
_route_final_review_AlwaysRevision(state) == "revision"

\* variant: only a rejection sends the machine back to refinement
_route_final_review_UnlessRejected(state) ==
  IF state.hitl_status = "rejected" THEN "revision" ELSE "approved"

\* variant: a rejection gets a label of its own
_route_final_review_Rejected(state) ==
  IF state.hitl_status = "approved" THEN "approved"
  ELSE IF state.hitl_status = "rejected" THEN "rejected"
  ELSE "revision"

_route_final_review(state) ==
  IF state.hitl_status = "approved" THEN "approved" ELSE "revision"

AmbiguityBranches ==
  [needs_review |-> "hitl_ambiguity_review", no_issues |-> "refine_requirements"]

FinalReviewBranches ==
  [approved |-> "finalize_deliverables", revision |-> "refine_requirements"]

\* build_graph: the successor of a node in the state reached after it
NextNode(node, state) ==
  CASE node = "load_document" -> "retrieve_context"
    [] node = "retrieve_context" -> "extract_requirements"
    [] node = "extract_requirements" -> "classify_requirements"
    [] node = "classify_requirements" -> "detect_ambiguities"
    [] node = "detect_ambiguities" -> AmbiguityBranches[_route_ambiguity_check(state)]
    [] node = "hitl_ambiguity_review" -> "refine_requirements"
    [] node = "refine_requirements" -> "build_traceability"
    [] node = "build_traceability" -> "generate_spec_document"
    [] node = "generate_spec_document" -> "hitl_final_review"
    [] node = "hitl_final_review" -> FinalReviewBranches[_route_final_review(state)]
    [] node = "finalize_deliverables" -> END

\* The graph loop shared by execute and resume.  Runs from `node` until the
\* end marker, an interrupt() without a resume value, or a raising node.
\* The checkpoint is written after every node; an interrupting or raising
\* node commits nothing.  `resume` is consumed by the first interrupt().
RECURSIVE RunGraph(_, _, _, _, _)
RunGraph(node, state, resume, run, trace) ==
  IF node = END
  THEN [outcome |-> "ended", next |-> END, values |-> state, trace |-> trace]
  ELSE IF run.failAt = node
  THEN [outcome |-> "raised", next |-> node, values |-> state, trace |-> trace]
  ELSE IF CallsInterrupt(node, state) /\ resume = NoResume
  THEN [outcome |-> "interrupted", next |-> node, values |-> state, trace |-> trace]
  ELSE LET after == Merge(state, NodeUpdate(node, state, resume, run))
       IN RunGraph(NextNode(node, after), after, NoResume, run, Append(trace, node))

\* ------------------------------------------------------- engine: rows
PROJECT == "p1"

Event(event_type, execution_id, data) ==
  [event_type |-> event_type, execution_id |-> execution_id, data |-> data]

NewProject == [status |-> "created", current_phase |-> NoneStr]

\* variant: the design phase is listed with the order of the analysis phase
DEFAULT_PHASES_Swapped ==
  <<[phase_type |-> "design", phase_order |-> 1, agent_name |-> NoneStr],
    [phase_type |-> "analysis", phase_order |-> 2, agent_name |-> "ryan"],
    [phase_type |-> "development", phase_order |-> 3, agent_name |-> NoneStr],
    [phase_type |-> "testing", phase_order |-> 4, agent_name |-> NoneStr]>>

DEFAULT_PHASES ==
  <<[phase_type |-> "analysis", phase_order |-> 1, agent_name |-> "ryan"],
    [phase_type |-> "design", phase_order |-> 2, agent_name |-> NoneStr],
    [phase_type |-> "development", phase_order |-> 3, agent_name |-> NoneStr],
    [phase_type |-> "testing", phase_order |-> 4, agent_name |-> NoneStr]>>

\* create_project: the phase rows added for a new project, one per entry of
\* DEFAULT_PHASES, each 'pending'
create_project_phases ==
  [i \in 1..Len(DEFAULT_PHASES) |->
     [phase_type |-> DEFAULT_PHASES[i].phase_type,
      phase_order |-> DEFAULT_PHASES[i].phase_order,
      agent_name |-> DEFAULT_PHASES[i].agent_name,
      status |-> "pending"]]

\* the phase rows of the new project, by phase type
NewPhases ==
  [t \in {create_project_phases[i].phase_type : i \in 1..Len(create_project_phases)} |->
     LET row == CHOOSE r \in {create_project_phases[i] : i \in 1..Len(create_project_phases)} :
                  r.phase_type = t
     IN [status |-> row.status, agent_name |-> row.agent_name, phase_order |-> row.phase_order]]

EmptyDb ==
  [project |-> NewProject, phases |-> NewPhases, executions |-> <<>>, reviews |-> <<>>,
   decisions |-> <<>>, events |-> <<>>, checkpoints |-> <<>>, deliverables |-> <<>>,
   versions |-> <<>>]

\* what an operation hands back besides the rows it changed
NoRet ==
  [error |-> "none", execution_id |-> 0, review_id |-> 0, agent_name |-> NoneStr,
   payload |-> None, outcome |-> "none", trace |-> <<>>]

Publish(st, event) == [st EXCEPT !.events = Append(@, event)]

\* ------------------------------------------------------- HITL service
create_review(st, execution_id, review_type) ==
  [st EXCEPT !.reviews =
     Append(@, [execution_id |-> execution_id, review_type |-> review_type, status |-> "pending"])]

OrEmpty(feedback) == IF feedback = NoneStr THEN "" ELSE feedback

approve_review(st, review_id, feedback, decided_by) ==
  [st EXCEPT !.reviews[review_id].status = "approved",
             !.decisions = Append(@, [review_id |-> review_id, decision |-> "approved",
                                      feedback |-> feedback, edits |-> None,
                                      decided_by |-> decided_by])]

reject_review(st, review_id, feedback, decided_by) ==
  [st EXCEPT !.reviews[review_id].status = "rejected",
             !.decisions = Append(@, [review_id |-> review_id, decision |-> "rejected",
                                      feedback |-> feedback, edits |-> None,
                                      decided_by |-> decided_by])]

request_revision(st, review_id, feedback, edits, decided_by) ==
  [st EXCEPT !.reviews[review_id].status = "revision_requested",
             !.decisions = Append(@, [review_id |-> review_id, decision |-> "revision_requested",
                                      feedback |-> feedback, edits |-> edits,
                                      decided_by |-> decided_by])]

\* ----------------------------------------------------- HITL controller
_summarize_snapshot(review_type) == <<review_type, "Review requested">>

create_interrupt(st, execution_id, review_type) ==
  LET st1 == create_review(st, execution_id, review_type)
      review_id == Len(st1.reviews)
  IN [st |-> Publish(st1, Event("agent.hitl.requested", execution_id,
                                [review_id |-> review_id, review_type |-> review_type,
                                 content_snapshot_summary |-> _summarize_snapshot(review_type)])),
      ret |-> [NoRet EXCEPT !.review_id = review_id, !.execution_id = execution_id]]

resolve_interrupt(st, review_id, decision, feedback, edits, decided_by, project_id) ==
  IF decision \in KnownDecisions /\ review_id \notin 1..Len(st.reviews)
  THEN [st |-> st, ret |-> [NoRet EXCEPT !.error = "NotFoundError", !.review_id = review_id]]
  ELSE LET st1 == CASE decision = "approved" ->
                         approve_review(st, review_id, feedback, decided_by)
                    [] decision = "rejected" ->
                         reject_review(st, review_id, OrEmpty(feedback), decided_by)
                    [] decision = "revision_requested" ->
                         request_revision(st, review_id, OrEmpty(feedback), edits, decided_by)
                    [] OTHER -> st
           st2 == IF project_id # NoneStr
                  THEN Publish(st1, Event("agent.hitl.resolved", 0,
                                          [review_id |-> review_id, decision |-> decision]))
                  ELSE st1
       IN [st |-> st2,
           ret |-> [NoRet EXCEPT !.review_id = review_id,
                                 !.payload = [decision |-> decision, feedback |-> feedback,
                                              edits |-> edits, decided_by |-> decided_by]]]

\* ------------------------------------------------- agent event emitter
\* AgentEventEmitter.hitl_requested: the snapshot is put in the event as it is
hitl_requested(st, execution_id, review_type, content_snapshot) ==
  Publish(st, Event("agent.hitl.requested", execution_id,
                    [review_type |-> review_type, content_snapshot |-> content_snapshot]))

\* variant: the analysis phase is marked as running
ProjectService_start_project_InProgress(st) ==
  IF st.project.status \notin {"created", "paused"}
  THEN [st |-> st, ret |-> [NoRet EXCEPT !.error = "ValueError"]]
  ELSE [st |-> [st EXCEPT !.project.status = "analysis",
                          !.project.current_phase = "analysis",
                          !.phases["analysis"].status = "in_progress"],
        ret |-> NoRet]

\* ----------------------------------------------------- project service
ProjectService_start_project(st) ==
  IF st.project.status \notin {"created", "paused"}
  THEN [st |-> st, ret |-> [NoRet EXCEPT !.error = "ValueError"]]
  ELSE [st |-> [st EXCEPT !.project.status = "analysis",
                          !.project.current_phase = "analysis",
                          !.phases["analysis"].status = "ready"],
        ret |-> NoRet]

\* update_project with data.status set
update_project(st, status) == [st EXCEPT !.project.status = status]

delete_project(st) == [st EXCEPT !.project.status = "archived"]

\* ------------------------------------------------------- phase service
set_hitl_review(st, phase_type) == [st EXCEPT !.phases[phase_type].status = "hitl_review"]

\* PhaseService.start_phase: only the phase's own status is looked at
PhaseService_start_phase(st, phase_type) ==
  IF st.phases[phase_type].status \notin {"pending", "ready"}
  THEN [st |-> st, ret |-> [NoRet EXCEPT !.error = "ValueError"]]
  ELSE [st |-> [st EXCEPT !.phases[phase_type].status = "in_progress"], ret |-> NoRet]

\* ------------------------------------------------- deliverable service
create_deliverable(st, phase_type, deliverable_type) ==
  [st EXCEPT !.deliverables = Append(@, [phase |-> phase_type,
                                         deliverable_type |-> deliverable_type,
                                         status |-> "draft", current_version |-> 1]),
             !.versions = Append(@, [deliverable_id |-> Len(st.deliverables) + 1,
                                     version_number |-> 1])]

\* add_version from the point where it has read the deliverable: the new
\* row gets the version after the one that was read, and current_version is
\* set to it
add_version_write(st, deliverable_id, read_version) ==
  [st EXCEPT !.versions = Append(@, [deliverable_id |-> deliverable_id,
                                     version_number |-> read_version + 1]),
             !.deliverables[deliverable_id].current_version = read_version + 1]

\* ------------------------------------------------ orchestration engine
ThreadId(phase_type, suffix) == <<"aiden", PROJECT, phase_type, suffix>>

_prepare_phase_input(phase_type) ==
  LET base_input == [hitl_status |-> NoneStr, hitl_feedback |-> None,
                     current_node |-> NoneStr, phase_status |-> "running"]
  IN IF phase_type = "analysis"
     THEN Merge(base_input,
                [raw_requirements |-> <<>>, functional_requirements |-> <<>>,
                 non_functional_requirements |-> <<>>, ambiguities |-> <<>>,
                 requirements_spec |-> None, traceability_matrix |-> None])
     ELSE base_input

SaveCheckpoint(st, thread_id, r) ==
  [st EXCEPT !.checkpoints =
     [t \in (DOMAIN @) \cup {thread_id} |->
        IF t = thread_id THEN [next |-> r.next, values |-> r.values] ELSE @[t]]]

\* BaseAgent.execute: runs the graph from its start node on input_data
execute(st, thread_id, input_data, run) ==
  LET r == RunGraph("load_document", input_data, NoResume, run, <<>>)
  IN [st |-> SaveCheckpoint(st, thread_id, r), run |-> r]

\* variant: the resumed run is checkpointed under a thread of its own
resume_NewThread(st, thread_id, human_input, run) ==
  LET cp == st.checkpoints[thread_id]
      r == RunGraph(cp.next, cp.values, human_input, run, <<>>)
  IN [st |-> SaveCheckpoint(st, <<thread_id[1], thread_id[2], thread_id[3], 0>>, r), run |-> r]

\* BaseAgent.resume: runs the graph from the checkpoint of thread_id with
\* human_input as the value of the pending interrupt(); a thread that has
\* ended runs no node and streams its final values
resume(st, thread_id, human_input, run) ==
  LET cp == st.checkpoints[thread_id]
      r == RunGraph(cp.next, cp.values, human_input, run, <<>>)
  IN [st |-> SaveCheckpoint(st, thread_id, r), run |-> r]

\* variant: the snapshot is not read
get_state_Empty(st, thread_id) == <<>>

\* BaseAgent.get_state: the last checkpointed values, {} without checkpoint
get_state(st, thread_id) ==
  IF thread_id \in DOMAIN st.checkpoints THEN st.checkpoints[thread_id].values ELSE <<>>

\* variant: a field that is present counts, whatever it holds
HasValue_KeyPresent(result, field) == field \in DOMAIN result

HasValue(result, field) == field \in DOMAIN result /\ Truthy(result[field])

_persist_deliverables(st, phase_type, result) ==
  LET st1 == IF HasValue(result, "requirements_spec")
             THEN create_deliverable(st, phase_type, "requirements_spec")
             ELSE st
  IN IF HasValue(result, "traceability_matrix")
     THEN create_deliverable(st1, phase_type, "traceability_matrix")
     ELSE st1

\* variant: the except block forgets the phase
FailExecution_KeepsPhase(st, execution_id, phase_type) ==
  LET st1 == [st EXCEPT !.executions[execution_id].status = "failed",
                        !.executions[execution_id].error_message = "error"]
  IN [st |-> Publish(st1, Event("agent.error", execution_id, [error |-> "error"])),
      ret |-> [NoRet EXCEPT !.error = "AgentExecutionError",
                            !.execution_id = execution_id,
                            !.agent_name = st.executions[execution_id].agent_name]]

\* the except block of start_phase
FailExecution(st, execution_id, phase_type) ==
  LET st1 == [st EXCEPT !.executions[execution_id].status = "failed",
                        !.executions[execution_id].error_message = "error",
                        !.phases[phase_type].status = "failed"]
  IN [st |-> Publish(st1, Event("agent.error", execution_id, [error |-> "error"])),
      ret |-> [NoRet EXCEPT !.error = "AgentExecutionError",
                            !.execution_id = execution_id,
                            !.agent_name = st.executions[execution_id].agent_name]]

RECURSIVE start_phase(_, _, _)
RECURSIVE _handle_agent_completion(_, _, _, _, _)

start_phase(st, phase_type, run) ==
  IF ~is_phase_ready(phase_type)
  THEN [st |-> st, ret |-> [NoRet EXCEPT !.error = "ValueError"]]
  ELSE
    LET execution_id == Len(st.executions) + 1
        thread_id == ThreadId(phase_type, execution_id)
        execution == [phase |-> phase_type, agent_name |-> get_agent_for_phase(phase_type),
                      thread_id |-> thread_id, status |-> "initialized",
                      error_message |-> NoneStr]
        st1 == Publish([st EXCEPT !.phases[phase_type].status = "in_progress",
                                  !.executions = Append(@, execution)],
                       Event("phase.started", execution_id, [phase_type |-> phase_type]))
    IN IF phase_type \notin AGENT_REGISTRY
       THEN FailExecution(st1, execution_id, phase_type)
       ELSE
         LET st2 == [st1 EXCEPT !.executions[execution_id].status = "running"]
             ex == execute(st2, thread_id, _prepare_phase_input(phase_type), run)
         IN IF ex.run.outcome = "raised"
            THEN FailExecution(ex.st, execution_id, phase_type)
            ELSE
              LET done == _handle_agent_completion(ex.st, execution_id, phase_type,
                                                  ex.run.values, run)
              IN IF done.ret.error # "none"
                 THEN FailExecution(done.st, execution_id, phase_type)
                 ELSE [st |-> done.st,
                       ret |-> [NoRet EXCEPT !.execution_id = execution_id,
                                             !.outcome = ex.run.outcome,
                                             !.trace = ex.run.trace]]

_handle_agent_completion(st, execution_id, phase_type, result, run) ==
  LET phase_status == IF "phase_status" \in DOMAIN result THEN result.phase_status
                      ELSE "completed"
  IN IF phase_status # "completed"
     THEN [st |-> st, ret |-> NoRet]
     ELSE
       LET st1 == [st EXCEPT !.executions[execution_id].status = "completed",
                             !.phases[phase_type].status = "completed"]
           st2 == _persist_deliverables(st1, phase_type, result)
           st3 == Publish(st2, Event("phase.completed", execution_id,
                                     [phase_type |-> phase_type]))
           next_phase_type == get_next_phase(phase_type)
       IN IF next_phase_type # NoneStr /\ is_phase_ready(next_phase_type)
          THEN start_phase(st3, next_phase_type, run)
          ELSE IF next_phase_type = NoneStr
          THEN [st |-> Publish([st3 EXCEPT !.project.status = "completed"],
                               Event("project.completed", 0, <<>>)),
                ret |-> NoRet]
          ELSE [st |-> st3, ret |-> NoRet]

\* variant: the project is marked started and the analysis phase is never dispatched
start_project_NoDispatch(st, run) ==
  IF st.project.status \notin {"created", "paused"}
  THEN [st |-> st, ret |-> [NoRet EXCEPT !.error = "ValueError"]]
  ELSE [st |-> Publish([st EXCEPT !.project.status = "analysis",
                                  !.project.current_phase = "analysis"],
                       Event("project.started", 0, <<>>)),
        ret |-> NoRet]

\* variant: the project's status is not looked at
start_project_Unchecked(st, run) ==
  LET st1 == Publish([st EXCEPT !.project.status = "analysis",
                                !.project.current_phase = "analysis"],
                     Event("project.started", 0, <<>>))
  IN start_phase(st1, "analysis", run)

start_project(st, run) ==
  IF st.project.status \notin {"created", "paused"}
  THEN [st |-> st, ret |-> [NoRet EXCEPT !.error = "ValueError"]]
  ELSE LET st1 == Publish([st EXCEPT !.project.status = "analysis",
                                     !.project.current_phase = "analysis"],
                          Event("project.started", 0, <<>>))
       IN start_phase(st1, "analysis", run)

handle_hitl_response(st, review_id, decision, feedback, edits, decided_by, run) ==
  IF review_id \notin 1..Len(st.reviews)
  THEN [st |-> st, ret |-> [NoRet EXCEPT !.error = "NotFoundError", !.review_id = review_id]]
  ELSE IF st.reviews[review_id].execution_id \notin 1..Len(st.executions)
  THEN [st |-> st, ret |-> [NoRet EXCEPT !.error = "NotFoundError", !.review_id = review_id]]
  ELSE
    LET execution_id == st.reviews[review_id].execution_id
        execution == st.executions[execution_id]
        phase_type == execution.phase
        resolved == resolve_interrupt(st, review_id, decision, feedback, edits, decided_by,
                                      PROJECT)
        info == [NoRet EXCEPT !.review_id = review_id, !.execution_id = execution_id,
                              !.payload = resolved.ret.payload]
    IN IF phase_type \notin AGENT_REGISTRY
       THEN [st |-> resolved.st, ret |-> [info EXCEPT !.error = "ValueError"]]
       ELSE
         LET st1 == [resolved.st EXCEPT !.executions[execution_id].status = "running"]
             re == resume(st1, execution.thread_id, resolved.ret.payload, run)
         IN IF re.run.outcome = "raised"
            THEN [st |-> re.st, ret |-> [info EXCEPT !.error = "NodeError",
                                                     !.outcome = "raised",
                                                     !.trace = re.run.trace]]
            ELSE
              LET done == _handle_agent_completion(re.st, execution_id, phase_type,
                                                  re.run.values, run)
              IN [st |-> done.st,
                  ret |-> [info EXCEPT !.error = done.ret.error,
                                       !.outcome = re.run.outcome,
                                       !.trace = re.run.trace]]

\* handle_hitl_response up to the point where it awaits agent.resume: the
\* review and execution are looked up, the review is resolved and the
\* execution is set to 'running'
handle_hitl_response_until_resume(st, review_id, decision, feedback, edits, decided_by) ==
  IF review_id \notin 1..Len(st.reviews)
  THEN [st |-> st, ret |-> [NoRet EXCEPT !.error = "NotFoundError", !.review_id = review_id]]
  ELSE IF st.reviews[review_id].execution_id \notin 1..Len(st.executions)
  THEN [st |-> st, ret |-> [NoRet EXCEPT !.error = "NotFoundError", !.review_id = review_id]]
  ELSE
    LET execution_id == st.reviews[review_id].execution_id
        resolved == resolve_interrupt(st, review_id, decision, feedback, edits, decided_by,
                                      PROJECT)
        info == [NoRet EXCEPT !.review_id = review_id, !.execution_id = execution_id,
                              !.payload = resolved.ret.payload]
    IN IF st.executions[execution_id].phase \notin AGENT_REGISTRY
       THEN [st |-> resolved.st, ret |-> [info EXCEPT !.error = "ValueError"]]
       ELSE [st |-> [resolved.st EXCEPT !.executions[execution_id].status = "running"],
             ret |-> info]

\* handle_hitl_response from agent.resume on, for a call that got that far
handle_hitl_response_from_resume(st, call, run) ==
  LET execution_id == call.execution_id
      info == [NoRet EXCEPT !.review_id = call.review_id, !.execution_id = execution_id,
                            !.payload = call.payload]
      re == resume(st, call.thread_id, call.payload, run)
  IN IF re.run.outcome = "raised"
     THEN [st |-> re.st, ret |-> [info EXCEPT !.error = "NodeError",
                                              !.outcome = "raised",
                                              !.trace = re.run.trace]]
     ELSE
       LET done == _handle_agent_completion(re.st, execution_id,
                                           st.executions[execution_id].phase,
                                           re.run.values, run)
       IN [st |-> done.st,
           ret |-> [info EXCEPT !.error = done.ret.error,
                                !.outcome = re.run.outcome,
                                !.trace = re.run.trace]]

\* ------------------------------------------- the event channel going down
Channels == {"up", "down"}

\* EventBus.publish: redis.publish is awaited with nothing around it, so a
\* channel that is down raises into the caller
publish_event(st, event, channel) ==
  IF channel = "up"
  THEN [st |-> Publish(st, event), error |-> "none"]
  ELSE [st |-> st, error |-> "ConnectionError"]

\* start_phase with the channel in the given condition: the first
\* publication comes before the try block and ends the call when it raises
start_phase_on(st, phase_type, run, channel) ==
  IF channel = "up"
  THEN start_phase(st, phase_type, run)
  ELSE IF ~is_phase_ready(phase_type)
  THEN [st |-> st, ret |-> [NoRet EXCEPT !.error = "ValueError"]]
  ELSE
    LET execution_id == Len(st.executions) + 1
        execution == [phase |-> phase_type, agent_name |-> get_agent_for_phase(phase_type),
                      thread_id |-> ThreadId(phase_type, execution_id),
                      status |-> "initialized", error_message |-> NoneStr]
        pub == publish_event([st EXCEPT !.phases[phase_type].status = "in_progress",
                                        !.executions = Append(@, execution)],
                             Event("phase.started", execution_id,
                                   [phase_type |-> phase_type]),
                             channel)
    IN [st |-> pub.st,
        ret |-> [NoRet EXCEPT !.error = pub.error, !.execution_id = execution_id]]

start_project_on(st, run, channel) ==
  IF channel = "up"
  THEN start_project(st, run)
  ELSE IF st.project.status \notin {"created", "paused"}
  THEN [st |-> st, ret |-> [NoRet EXCEPT !.error = "ValueError"]]
  ELSE LET pub == publish_event([st EXCEPT !.project.status = "analysis",
                                          !.project.current_phase = "analysis"],
                               Event("project.started", 0, <<>>), channel)
       IN [st |-> pub.st, ret |-> [NoRet EXCEPT !.error = pub.error]]

create_interrupt_on(st, execution_id, review_type, channel) ==
  IF channel = "up"
  THEN create_interrupt(st, execution_id, review_type)
  ELSE LET st1 == create_review(st, execution_id, review_type)
           review_id == Len(st1.reviews)
           pub == publish_event(st1,
                    Event("agent.hitl.requested", execution_id,
                          [review_id |-> review_id, review_type |-> review_type,
                           content_snapshot_summary |-> _summarize_snapshot(review_type)]),
                    channel)
       IN [st |-> pub.st,
           ret |-> [NoRet EXCEPT !.error = pub.error, !.execution_id = execution_id]]

\* resolve_interrupt publishes only when it is given a project_id
resolve_interrupt_on(st, review_id, decision, feedback, edits, decided_by, project_id, channel) ==
  IF channel = "up" \/ project_id = NoneStr
  THEN resolve_interrupt(st, review_id, decision, feedback, edits, decided_by, project_id)
  ELSE LET served == resolve_interrupt(st, review_id, decision, feedback, edits,
                                       decided_by, NoneStr)
       IN IF served.ret.error # "none"
          THEN served
          ELSE LET pub == publish_event(served.st,
                            Event("agent.hitl.resolved", 0,
                                  [review_id |-> review_id, decision |-> decision]),
                            channel)
               IN [st |-> pub.st,
                   ret |-> [NoRet EXCEPT !.error = pub.error, !.review_id = review_id]]

\* handle_hitl_response: the publication inside resolve_interrupt is the
\* first one, and raises before the execution is set to 'running'
handle_hitl_response_on(st, review_id, decision, feedback, edits, decided_by, run, channel) ==
  IF channel = "up"
  THEN handle_hitl_response(st, review_id, decision, feedback, edits, decided_by, run)
  ELSE IF review_id \notin 1..Len(st.reviews)
  THEN [st |-> st, ret |-> [NoRet EXCEPT !.error = "NotFoundError", !.review_id = review_id]]
  ELSE IF st.reviews[review_id].execution_id \notin 1..Len(st.executions)
  THEN [st |-> st, ret |-> [NoRet EXCEPT !.error = "NotFoundError", !.review_id = review_id]]
  ELSE resolve_interrupt_on(st, review_id, decision, feedback, edits, decided_by, PROJECT,
                            channel)

\* ------------------------------------------------ event bus subscriptions
SubscriptionKinds == {"subscribe", "subscribe_all"}

\* subscribe / subscribe_all up to the listen loop: a pubsub object is
\* opened and subscribed to the channel (the pattern, for subscribe_all)
NewSubscription(kind) ==
  [kind |-> kind, status |-> "listening", subscribed |-> TRUE, open |-> TRUE]

\* the finally block: unsubscribe (punsubscribe) is awaited, then close;
\* when the unsubscribe call raises, the close call after it is not reached
EndSubscription(sub, unsubscribe_raises) ==
  IF unsubscribe_raises
  THEN [sub EXCEPT !.status = "ended"]
  ELSE [sub EXCEPT !.status = "ended", !.subscribed = FALSE, !.open = FALSE]

\* ------------------------------------------- WebSocket ConnectionManager
ProjectIds == {"p1", "p2"}
WebSockets == 1..MaxConnections

\* a Python dict: a function whose domain is the set of its keys
EmptyDict == [k \in {} |-> <<>>]
Put(d, k, v) == [x \in DOMAIN d \cup {k} |-> IF x = k THEN v ELSE d[x]]
Del(d, k) == [x \in DOMAIN d \ {k} |-> d[x]]
Get(d, k, default) == IF k \in DOMAIN d THEN d[k] ELSE default

\* position of the first occurrence list.remove(x) deletes, 0 when it raises
IndexOf(seq, x) ==
  IF \E i \in 1..Len(seq) : seq[i] = x
  THEN CHOOSE i \in 1..Len(seq) : seq[i] = x /\ \A j \in 1..(i - 1) : seq[j] # x
  ELSE 0

\* the task asyncio.create_task makes of _subscribe_to_events: it listens,
\* or is inside broadcast_to_project at position index of the connections
NewTask(project_id) ==
  [project_id |-> project_id, status |-> "running", pc |-> "listening", index |-> 0,
   dead |-> <<>>]

\* Task.cancel(): a finished task ignores it, a running one gets
\* CancelledError at its next suspension
cancel(task) == IF task.status = "running" THEN [task EXCEPT !.status = "cancelling"] ELSE task

\* manager = ConnectionManager(), with the tasks it has created and the
\* websocket_endpoint call of every client
ConnectionManager_init ==
  [active_connections |-> EmptyDict, _subscriber_tasks |-> EmptyDict, tasks |-> <<>>,
   endpoints |-> [w \in WebSockets |-> [project_id |-> NoneStr, state |-> "new", alive |-> TRUE]]]

connect(m, websocket, project_id) ==
  LET m1 == [m EXCEPT !.active_connections =
                        Put(@, project_id, Append(Get(@, project_id, <<>>), websocket))]
  IN  IF \/ project_id \notin DOMAIN m._subscriber_tasks
         \/ m.tasks[m._subscriber_tasks[project_id]].status = "done"
      THEN [m1 EXCEPT !.tasks = Append(@, NewTask(project_id)),
                      !._subscriber_tasks = Put(@, project_id, Len(m.tasks) + 1)]
      ELSE m1

disconnect(m, websocket, project_id) ==
  IF project_id \notin DOMAIN m.active_connections
  THEN [m |-> m, error |-> "none"]
  ELSE
    LET connections == m.active_connections[project_id]
        i == IndexOf(connections, websocket)
        rest == SubSeq(connections, 1, i - 1) \o SubSeq(connections, i + 1, Len(connections))
        m1 == [m EXCEPT !.active_connections = Del(@, project_id)]
    IN  IF i = 0
        THEN [m |-> m, error |-> "ValueError"]
        ELSE IF rest # <<>>
        THEN [m |-> [m EXCEPT !.active_connections[project_id] = rest], error |-> "none"]
        ELSE IF project_id \in DOMAIN m._subscriber_tasks
        THEN [m |-> [m1 EXCEPT !.tasks[m._subscriber_tasks[project_id]] = cancel(@),
                               !._subscriber_tasks = Del(@, project_id)],
              error |-> "none"]
        ELSE [m |-> m1, error |-> "none"]

\* broadcast_to_project, one connection of the loop: send_json raises on a
\* connection whose client is gone
broadcast_send(m, t) ==
  LET task == m.tasks[t]
      connection == Get(m.active_connections, task.project_id, <<>>)[task.index + 1]
  IN  [m EXCEPT !.tasks[t].index = @ + 1,
                !.tasks[t].dead = IF m.endpoints[connection].alive
                                  THEN @ ELSE Append(@, connection)]

\* broadcast_to_project, the clean-up loop: it has no suspension point
RECURSIVE broadcast_cleanup(_, _, _)
broadcast_cleanup(m, dead_connections, project_id) ==
  IF dead_connections = <<>>
  THEN [m |-> m, error |-> "none"]
  ELSE LET r == disconnect(m, Head(dead_connections), project_id)
       IN  IF r.error # "none"
           THEN r
           ELSE broadcast_cleanup(r.m, Tail(dead_connections), project_id)

\* _subscribe_to_events after a broadcast: an exception of the broadcast
\* ends the task, otherwise it listens again
_subscribe_to_events_next(m, t, error) ==
  IF error # "none"
  THEN [m EXCEPT !.tasks[t].status = "done"]
  ELSE [m EXCEPT !.tasks[t].pc = "listening", !.tasks[t].index = 0, !.tasks[t].dead = <<>>]

\* ---------------------------------------------------------------- state
VARIABLES project, phases, executions, reviews, decisions, events, checkpoints,
          deliverables, versions, inflight, subscriptions, manager, lastCall

vars == <<project, phases, executions, reviews, decisions, events, checkpoints,
          deliverables, versions, inflight, subscriptions, manager, lastCall>>

Db ==
  [project |-> project, phases |-> phases, executions |-> executions, reviews |-> reviews,
   decisions |-> decisions, events |-> events, checkpoints |-> checkpoints,
   deliverables |-> deliverables, versions |-> versions]

NoArgs == [none |-> TRUE]

\* the rows after the call, the arguments of the call and what it handed back
Returns(op, args, r) ==
  /\ project' = r.st.project
  /\ phases' = r.st.phases
  /\ executions' = r.st.executions
  /\ reviews' = r.st.reviews
  /\ decisions' = r.st.decisions
  /\ events' = r.st.events
  /\ checkpoints' = r.st.checkpoints
  /\ deliverables' = r.st.deliverables
  /\ versions' = r.st.versions
  /\ inflight' = inflight
  /\ subscriptions' = subscriptions
  /\ manager' = manager
  /\ lastCall' = Merge(r.ret, [op |-> op, args |-> args])

Init ==
  /\ project = EmptyDb.project
  /\ phases = EmptyDb.phases
  /\ executions = <<>>
  /\ reviews = <<>>
  /\ decisions = <<>>
  /\ events = <<>>
  /\ checkpoints = <<>>
  /\ deliverables = <<>>
  /\ versions = <<>>
  /\ inflight = <<>>
  /\ subscriptions = <<>>
  /\ manager = ConnectionManager_init
  /\ lastCall = Merge(NoRet, [op |-> "create_project", args |-> NoArgs])

DecidedBy == {NoneStr}

StartProject ==
  \E run \in CollaboratorRuns :
    /\ Len(executions) < MaxExecutions
    /\ Len(events) < MaxEvents
    /\ Returns("start_project", NoArgs, start_project(Db, run))

StartPhase ==
  \E phase_type \in PhaseTypes, run \in CollaboratorRuns :
    /\ Len(executions) < MaxExecutions
    /\ Len(events) < MaxEvents
    /\ Returns("start_phase", [phase_type |-> phase_type], start_phase(Db, phase_type, run))

\* the execution's machine is suspended at an interrupt() call
Suspended(st, execution_id) ==
  LET thread_id == st.executions[execution_id].thread_id
  IN /\ st.executions[execution_id].status = "running"
     /\ thread_id \in DOMAIN st.checkpoints
     /\ st.checkpoints[thread_id].next \in HitlNodes

\* the review_type of the payload the suspended node passed to interrupt()
InterruptReviewType(st, execution_id) ==
  IF st.checkpoints[st.executions[execution_id].thread_id].next = "hitl_final_review"
  THEN "final_deliverable_review"
  ELSE "ambiguity_review"

\* create_interrupt, called for a suspended execution with its interrupt payload
CreateInterrupt ==
  \E execution_id \in 1..Len(executions) :
    /\ Suspended(Db, execution_id)
    /\ Len(reviews) < MaxReviews
    /\ Len(events) < MaxEvents
    /\ Returns("create_interrupt", NoArgs,
               create_interrupt(Db, execution_id, InterruptReviewType(Db, execution_id)))

HandleHitlResponse ==
  \E review_id \in 1..(Len(reviews) + 1), response \in Responses,
     decided_by \in DecidedBy, run \in CollaboratorRuns :
    /\ Len(events) < MaxEvents
    /\ Returns("handle_hitl_response", response,
               handle_hitl_response(Db, review_id, response.decision, response.feedback,
                                    response.edits, decided_by, run))

\* HITLController.resolve_interrupt called on its own
ResolveInterrupt ==
  \E review_id \in 1..(Len(reviews) + 1), response \in Responses,
     decided_by \in DecidedBy, project_id \in {NoneStr, PROJECT} :
    /\ Len(decisions) < MaxDecisions
    /\ Len(events) < MaxEvents
    /\ Returns("resolve_interrupt", response,
               resolve_interrupt(Db, review_id, response.decision, response.feedback,
                                 response.edits, decided_by, project_id))

\* PhaseService.set_hitl_review, called for a phase that has been dispatched
SetHitlReview ==
  \E phase_type \in PhaseTypes :
    /\ \E i \in 1..Len(executions) : executions[i].phase = phase_type
    /\ Returns("set_hitl_review", [phase_type |-> phase_type],
               [st |-> set_hitl_review(Db, phase_type), ret |-> NoRet])

Next ==
  \/ StartProject
  \/ StartPhase
  \/ CreateInterrupt
  \/ HandleHitlResponse

Spec == Init /\ [][Next]_vars

\* the HITL controller and the phase service driven directly, on executions
\* the engine has dispatched
NextHitl ==
  \/ StartPhase
  \/ CreateInterrupt
  \/ ResolveInterrupt
  \/ SetHitlReview

SpecHitl == Init /\ [][NextHitl]_vars

ServiceStartProject ==
  Returns("ProjectService.start_project", NoArgs, ProjectService_start_project(Db))

\* statuses a client sets through update_project
UpdateStatuses == {"paused", "completed"}

UpdateProject ==
  \E status \in UpdateStatuses :
    Returns("update_project", [status |-> status],
            [st |-> update_project(Db, status), ret |-> NoRet])

DeleteProject ==
  Returns("delete_project", NoArgs, [st |-> delete_project(Db), ret |-> NoRet])

\* the project's lifecycle driven through the project service and the engine
NextProject ==
  \/ StartProject
  \/ ServiceStartProject
  \/ UpdateProject
  \/ DeleteProject

SpecProject == Init /\ [][NextProject]_vars

\* BaseAgent.get_state for the thread of an execution, or for a thread that
\* was never run
GetState ==
  \E thread_id \in {executions[i].thread_id : i \in 1..Len(executions)}
                   \cup {ThreadId("analysis", 0)} :
    Returns("get_state", [thread_id |-> thread_id],
            [st |-> Db, ret |-> [NoRet EXCEPT !.payload = get_state(Db, thread_id)]])

\* the engine with the agent's state inspected between calls
NextInspect ==
  \/ StartProject
  \/ CreateInterrupt
  \/ HandleHitlResponse
  \/ GetState

SpecInspect == Init /\ [][NextInspect]_vars

RowsBecome(st) ==
  /\ project' = st.project
  /\ phases' = st.phases
  /\ executions' = st.executions
  /\ reviews' = st.reviews
  /\ decisions' = st.decisions
  /\ events' = st.events
  /\ checkpoints' = st.checkpoints
  /\ deliverables' = st.deliverables
  /\ versions' = st.versions

RemoveAt(seq, i) == SubSeq(seq, 1, i - 1) \o SubSeq(seq, i + 1, Len(seq))

\* a handle_hitl_response call runs up to its await of agent.resume; the
\* resume it issued is then in flight
BeginHitlResponse ==
  \E review_id \in 1..Len(reviews), response \in Responses, decided_by \in DecidedBy :
    /\ Len(inflight) < MaxInFlight
    /\ Len(events) < MaxEvents
    /\ LET r == handle_hitl_response_until_resume(Db, review_id, response.decision,
                                                  response.feedback, response.edits,
                                                  decided_by)
       IN /\ RowsBecome(r.st)
          /\ lastCall' = Merge(r.ret, [op |-> "handle_hitl_response.resume", args |-> response])
          /\ inflight' =
               IF r.ret.error = "none"
               THEN Append(inflight,
                           [review_id |-> review_id, execution_id |-> r.ret.execution_id,
                            thread_id |-> executions[r.ret.execution_id].thread_id,
                            payload |-> r.ret.payload])
               ELSE inflight
          /\ subscriptions' = subscriptions
          /\ manager' = manager

\* a resume in flight finishes and its handle_hitl_response call runs to its
\* end; resumes in flight on one thread take effect in the order they finish
EndHitlResponse ==
  \E i \in 1..Len(inflight), run \in CollaboratorRuns :
    LET r == handle_hitl_response_from_resume(Db, inflight[i], run)
    IN /\ RowsBecome(r.st)
       /\ lastCall' = Merge(r.ret, [op |-> "handle_hitl_response.return",
                                    args |-> [review_id |-> inflight[i].review_id]])
       /\ inflight' = RemoveAt(inflight, i)
       /\ subscriptions' = subscriptions
       /\ manager' = manager

\* engine calls interleaved at the await of agent.resume
NextConcurrent ==
  \/ StartPhase
  \/ CreateInterrupt
  \/ BeginHitlResponse
  \/ EndHitlResponse

SpecConcurrent == Init /\ [][NextConcurrent]_vars

\* results handed to _handle_agent_completion: the last streamed values, or
\* {} when nothing was streamed (execute: return result or {})
SpecDoc == [title |-> "Requirements Specification"]
MatrixDoc == [title |-> "Requirements Traceability Matrix"]

CompletionResults ==
  {[phase_status |-> "running", requirements_spec |-> SpecDoc, traceability_matrix |-> MatrixDoc],
   [phase_status |-> "hitl_review", requirements_spec |-> SpecDoc],
   [phase_status |-> "failed"],
   <<>>,
   [phase_status |-> "completed", requirements_spec |-> SpecDoc, traceability_matrix |-> MatrixDoc],
   [phase_status |-> "completed", requirements_spec |-> SpecDoc, traceability_matrix |-> <<>>],
   [phase_status |-> "completed", requirements_spec |-> None]}

\* what the collaborators return to a dispatch chained from a completion
ChainedRun == [reqs |-> <<REQ1, REQ2>>, ambs |-> <<>>, failAt |-> NoFailure]

\* _handle_agent_completion applied to a dispatched execution and a result
HandleAgentCompletion ==
  \E execution_id \in 1..Len(executions), result \in CompletionResults :
    /\ Len(events) < MaxEvents
    /\ Returns("_handle_agent_completion",
               [execution_id |-> execution_id, result |-> result],
               _handle_agent_completion(Db, execution_id, executions[execution_id].phase,
                                        result, ChainedRun))

\* the completion step driven directly on executions the engine dispatched
NextCompletion ==
  \/ StartPhase
  \/ HandleAgentCompletion

SpecCompletion == Init /\ [][NextCompletion]_vars

\* POST /phases/{phase_id}/start
ServiceStartPhase ==
  \E phase_type \in PhaseTypes :
    Returns("PhaseService.start_phase", [phase_type |-> phase_type],
            PhaseService_start_phase(Db, phase_type))

\* phases started through the engine and through the phase service
NextPhase ==
  \/ StartPhase
  \/ ServiceStartPhase

SpecPhase == Init /\ [][NextPhase]_vars

\* the answer given to reviews while the channel's condition varies
ChannelResponses == {r \in Responses : r.decision = "approved"}

\* the engine's and the HITL controller's operations with the event channel
\* up or down for the length of the call
StartProjectOn ==
  \E channel \in Channels :
    /\ Len(executions) < MaxExecutions
    /\ Len(events) < MaxEvents
    /\ Returns("start_project", [run |-> ChainedRun, channel |-> channel],
               start_project_on(Db, ChainedRun, channel))

StartPhaseOn ==
  \E phase_type \in PhaseTypes, channel \in Channels :
    /\ Len(executions) < MaxExecutions
    /\ Len(events) < MaxEvents
    /\ Returns("start_phase",
               [phase_type |-> phase_type, run |-> ChainedRun, channel |-> channel],
               start_phase_on(Db, phase_type, ChainedRun, channel))

CreateInterruptOn ==
  \E execution_id \in 1..Len(executions), channel \in Channels :
    /\ Suspended(Db, execution_id)
    /\ Len(reviews) < MaxReviews
    /\ Len(events) < MaxEvents
    /\ Returns("create_interrupt",
               [execution_id |-> execution_id,
                review_type |-> InterruptReviewType(Db, execution_id), channel |-> channel],
               create_interrupt_on(Db, execution_id, InterruptReviewType(Db, execution_id),
                                   channel))

ResolveInterruptOn ==
  \E review_id \in 1..Len(reviews), response \in ChannelResponses, channel \in Channels :
    /\ Len(decisions) < MaxDecisions
    /\ Len(events) < MaxEvents
    /\ Returns("resolve_interrupt",
               [review_id |-> review_id, response |-> response, channel |-> channel],
               resolve_interrupt_on(Db, review_id, response.decision, response.feedback,
                                    response.edits, NoneStr, PROJECT, channel))

HandleHitlResponseOn ==
  \E review_id \in 1..Len(reviews), response \in ChannelResponses, channel \in Channels :
    /\ Len(decisions) < MaxDecisions
    /\ Len(events) < MaxEvents
    /\ Returns("handle_hitl_response",
               [review_id |-> review_id, response |-> response, run |-> ChainedRun,
                channel |-> channel],
               handle_hitl_response_on(Db, review_id, response.decision, response.feedback,
                                       response.edits, NoneStr, ChainedRun, channel))

NextChannel ==
  \/ StartProjectOn
  \/ StartPhaseOn
  \/ CreateInterruptOn
  \/ ResolveInterruptOn
  \/ HandleHitlResponseOn

SpecChannel == Init /\ [][NextChannel]_vars

\* the payload the suspended node passed to interrupt()
InterruptPayload(st, execution_id) ==
  LET values == st.checkpoints[st.executions[execution_id].thread_id].values
  IN IF InterruptReviewType(st, execution_id) = "ambiguity_review"
     THEN [review_type |-> "ambiguity_review", message |-> "ambiguities detected",
           ambiguities |-> values.ambiguities,
           requirements |-> values.functional_requirements
                              \o values.non_functional_requirements]
     ELSE [review_type |-> "final_deliverable_review", message |-> "ready for review",
           requirements_spec |-> values.requirements_spec,
           traceability_matrix |-> values.traceability_matrix]

\* the emitter's notification for a suspended execution
EmitHitlRequested ==
  \E execution_id \in 1..Len(executions) :
    /\ Suspended(Db, execution_id)
    /\ Len(events) < MaxEvents
    /\ Returns("hitl_requested", [execution_id |-> execution_id],
               [st |-> hitl_requested(Db, execution_id, InterruptReviewType(Db, execution_id),
                                      InterruptPayload(Db, execution_id)),
                ret |-> NoRet])

\* the two ways a review request is announced
NextNotify ==
  \/ StartPhase
  \/ CreateInterrupt
  \/ EmitHitlRequested

SpecNotify == Init /\ [][NextNotify]_vars

\* the part of the graph state the routers are given: the detected
\* ambiguities, the status the last review node stored (None before any
\* review, else the decision string of the response) and the current node
RouterAmbiguities == {[i \in 1..n |-> AMB1] : n \in 0..MaxAmbiguities}
RouterStatuses == {NoneStr, "approved", "rejected", "revision_requested", "deferred"}
RouterNodes == {"detect_ambiguities", "hitl_ambiguity_review", "hitl_final_review"}
RouterStates ==
  [ambiguities : RouterAmbiguities, hitl_status : RouterStatuses, current_node : RouterNodes]

\* a router returns its label; nothing in it raises
RouteAmbiguityCheck ==
  \E state \in RouterStates :
    Returns("_route_ambiguity_check", state,
            [st |-> Db, ret |-> Merge(NoRet, [label |-> _route_ambiguity_check(state)])])

RouteFinalReview ==
  \E state \in RouterStates :
    Returns("_route_final_review", state,
            [st |-> Db, ret |-> Merge(NoRet, [label |-> _route_final_review(state)])])

NextRouters ==
  \/ RouteAmbiguityCheck
  \/ RouteFinalReview

SpecRouters == Init /\ [][NextRouters]_vars

DeliverableTypes == {"requirements_spec", "traceability_matrix"}

CreateDeliverable ==
  \E deliverable_type \in DeliverableTypes :
    /\ Len(deliverables) < MaxDeliverables
    /\ Len(versions) + Len(inflight) < MaxVersions
    /\ Returns("create_deliverable", [deliverable_type |-> deliverable_type],
               [st |-> create_deliverable(Db, "analysis", deliverable_type), ret |-> NoRet])

\* an add_version call reads the deliverable; until its flush the call is
\* in flight with the current_version it read
BeginAddVersion ==
  \E deliverable_id \in 1..Len(deliverables) :
    /\ Len(inflight) < MaxInFlight
    /\ Len(versions) + Len(inflight) < MaxVersions
    /\ RowsBecome(Db)
    /\ inflight' = Append(inflight,
                          [deliverable_id |-> deliverable_id,
                           current_version |-> deliverables[deliverable_id].current_version])
    /\ subscriptions' = subscriptions
    /\ manager' = manager
    /\ lastCall' = Merge(NoRet, [op |-> "add_version.read",
                                 args |-> [deliverable_id |-> deliverable_id]])

\* an add_version call in flight adds its version row and flushes
EndAddVersion ==
  \E i \in 1..Len(inflight) :
    /\ RowsBecome(add_version_write(Db, inflight[i].deliverable_id,
                                    inflight[i].current_version))
    /\ inflight' = RemoveAt(inflight, i)
    /\ subscriptions' = subscriptions
    /\ manager' = manager
    /\ lastCall' = Merge(NoRet, [op |-> "add_version.flush",
                                 args |-> [deliverable_id |-> inflight[i].deliverable_id]])

\* deliverable service calls, add_version calls interleaved at their await
NextVersions ==
  \/ CreateDeliverable
  \/ BeginAddVersion
  \/ EndAddVersion

SpecVersions == Init /\ [][NextVersions]_vars

\* why a subscription's generator is left: its consumer stops iterating or
\* is cancelled, listening raises, or the consumer raises on an event
EndReasons == {"stopped", "cancelled", "listen_error", "handler_error"}

Subscribe ==
  \E kind \in SubscriptionKinds :
    /\ Len(subscriptions) < MaxSubscriptions
    /\ subscriptions' = Append(subscriptions, NewSubscription(kind))
    /\ lastCall' = Merge(NoRet, [op |-> kind, args |-> NoArgs])
    /\ UNCHANGED <<project, phases, executions, reviews, decisions, events, checkpoints,
                   deliverables, versions, inflight, manager>>

\* the generator of a listening subscription is left and its finally block
\* runs, with the Redis connection still there or lost
LeaveSubscription ==
  \E i \in 1..Len(subscriptions), reason \in EndReasons, connected \in BOOLEAN :
    /\ subscriptions[i].status = "listening"
    /\ subscriptions' = [subscriptions EXCEPT ![i] = EndSubscription(@, ~connected)]
    /\ lastCall' = Merge(NoRet, [op |-> "subscription.end",
                                 args |-> [subscription |-> i, reason |-> reason,
                                           connected |-> connected]])
    /\ UNCHANGED <<project, phases, executions, reviews, decisions, events, checkpoints,
                   deliverables, versions, inflight, manager>>

NextSubscribe ==
  \/ Subscribe
  \/ LeaveSubscription

SpecSubscribe == Init /\ [][NextSubscribe]_vars

\* PhaseController.get_next_phase asked about a phase of the order
GetNextPhase ==
  \E current_phase \in PhaseTypes :
    Returns("get_next_phase", [current_phase |-> current_phase],
            [st |-> Db, ret |-> Merge(NoRet, [next |-> get_next_phase(current_phase)])])

\* the phase order consulted while phases are started through the service
NextOrder ==
  \/ GetNextPhase
  \/ ServiceStartPhase

SpecOrder == Init /\ [][NextOrder]_vars

\* ------------------------------------------------------------ properties
StartOps == {"start_phase", "start_project"}

ValuesOf(st, execution_id) == get_state(st, st.executions[execution_id].thread_id)

EventCount(evs, event_type, execution_id) ==
  Cardinality({i \in 1..Len(evs) :
                 evs[i].event_type = event_type /\ evs[i].execution_id = execution_id})

PendingReviewsOf(execution_id) ==
  {r \in 1..Len(reviews) : reviews[r].execution_id = execution_id
                           /\ reviews[r].status = "pending"}

\* collaborator outputs of a run in which no node raises
LiveRuns == {run \in CollaboratorRuns : run.failAt = NoFailure}

\* the reviews answered so far
Answers == EventCount(events, "agent.hitl.resolved", 0)

\* a created project is started and its analysis agent runs to its first
\* suspension
LiveStartProject ==
  \E run \in LiveRuns :
    /\ project.status = "created"
    /\ Returns("start_project", NoArgs, start_project(Db, run))

\* a suspended execution with no open review gets one
LiveCreateInterrupt ==
  \E execution_id \in 1..Len(executions) :
    /\ Suspended(Db, execution_id)
    /\ PendingReviewsOf(execution_id) = {}
    /\ Returns("create_interrupt", NoArgs,
               create_interrupt(Db, execution_id, InterruptReviewType(Db, execution_id)))

\* the reviewer answers the open review of a suspended execution with
\* 'approved'
LiveApprove ==
  \E review_id \in 1..Len(reviews), response \in ChannelResponses :
    /\ reviews[review_id].status = "pending"
    /\ Suspended(Db, reviews[review_id].execution_id)
    /\ Answers < MaxRevisions + 2
    /\ Returns("handle_hitl_response", response,
               handle_hitl_response(Db, review_id, response.decision, response.feedback,
                                    response.edits, NoneStr, ChainedRun))

\* the reviewer answers with another decision; the number of such answers
\* is capped, the machine has no cap of its own
LiveRevise ==
  \E review_id \in 1..Len(reviews), response \in Responses \ ChannelResponses :
    /\ reviews[review_id].status = "pending"
    /\ Suspended(Db, reviews[review_id].execution_id)
    /\ Answers < MaxRevisions
    /\ Returns("handle_hitl_response", response,
               handle_hitl_response(Db, review_id, response.decision, response.feedback,
                                    response.edits, NoneStr, ChainedRun))

NextLive ==
  \/ LiveStartProject
  \/ LiveCreateInterrupt
  \/ LiveApprove
  \/ LiveRevise

\* a pending review of a suspended execution can still be answered with
\* 'approved': the enabling condition of LiveApprove, whose every step
\* changes the review's status
ApprovePending ==
  \E review_id \in 1..Len(reviews) :
    /\ reviews[review_id].status = "pending"
    /\ Suspended(Db, reviews[review_id].execution_id)
    /\ Answers < MaxRevisions + 2

\* every suspension is eventually answered: weak fairness of the answers,
\* with ENABLED written out as ApprovePending (LiveRevise is enabled only
\* where LiveApprove is)
AnswersAreFair == []<>(~ApprovePending) \/ []<><<LiveApprove \/ LiveRevise>>_vars

\* the reviewer approves in the end: strong fairness of the approvals, with
\* ENABLED written out as ApprovePending
ApprovalIsFair == <>[](~ApprovePending) \/ []<><<LiveApprove>>_vars

\* every suspension gets a review and an answer, and the reviewer approves
\* in the end
SpecLive ==
  /\ Init
  /\ [][NextLive]_vars
  /\ WF_vars(LiveCreateInterrupt)
  /\ AnswersAreFair
  /\ ApprovalIsFair

\* C1: when the agent raises inside start_phase, the execution start_phase
\* created and its phase are 'failed' on return, exactly one agent.error
\* event exists for that execution, the error is an AgentExecutionError
\* carrying the agent name, and no other execution or phase changed status.
C1_StartPhaseFailure ==
  [][(lastCall'.op \in StartOps /\ lastCall'.error = "AgentExecutionError") =>
       LET e == lastCall'.execution_id
           p == executions'[e].phase
       IN /\ e = Len(executions) + 1
          /\ executions'[e].status = "failed"
          /\ phases'[p].status = "failed"
          /\ EventCount(events', "agent.error", e) = 1
          /\ lastCall'.agent_name = get_agent_for_phase(p)
          /\ lastCall'.agent_name # NoneStr
          /\ \A i \in 1..Len(executions) : executions'[i].status = executions[i].status
          /\ \A q \in PhaseTypes \ {p} : phases'[q].status = phases[q].status]_vars

\* a failed dispatch next to an earlier execution of another run
C1_Witness ==
  /\ lastCall.op = "start_phase"
  /\ lastCall.error = "AgentExecutionError"
  /\ Len(executions) = 2
  /\ executions[2].status = "failed"
  /\ executions[1].status = "running"

\* C2: a node raising during the resume of handle_hitl_response leaves the
\* execution 'failed', its phase 'failed' and an agent.error event published.
C2_ResumeFailureMarksFailed ==
  (lastCall.op = "handle_hitl_response" /\ lastCall.outcome = "raised") =>
     LET e == lastCall.execution_id
     IN /\ executions[e].status = "failed"
        /\ phases[executions[e].phase].status = "failed"
        /\ EventCount(events, "agent.error", e) >= 1

\* C3: resolve_interrupt on an unknown review fails with NotFoundError, on a
\* terminal review with an invalid-state error; in both cases no decision
\* is appended, no review changes, no agent.hitl.resolved is published and
\* no resume payload is returned.
C3_ResolveRejectsUnknownAndTerminal ==
  [][(lastCall'.op = "resolve_interrupt" /\ lastCall'.args.decision \in KnownDecisions) =>
       LET r == lastCall'.review_id
           unknown == r \notin 1..Len(reviews)
           terminal == ~unknown /\ reviews[r].status \in KnownDecisions
       IN /\ unknown => lastCall'.error = "NotFoundError"
          /\ terminal => lastCall'.error = "InvalidStateError"
          /\ (unknown \/ terminal) =>
               /\ decisions' = decisions
               /\ reviews' = reviews
               /\ events' = events
               /\ lastCall'.payload = None]_vars

DecisionsOf(review_id) ==
  SelectSeq(decisions, LAMBDA d : d.review_id = review_id)

StatusMatchesLatestDecision ==
  \A r \in 1..Len(reviews) :
    LET ds == DecisionsOf(r)
    IN IF ds = <<>> THEN reviews[r].status = "pending"
       ELSE reviews[r].status = ds[Len(ds)].decision

\* C4: a review is 'pending' exactly when it has no ReviewDecision and
\* otherwise carries the decision of its latest ReviewDecision; every
\* resolve_interrupt that returns a payload appended exactly one
\* ReviewDecision with the payload's decision and set the review to it.
C4_DecisionLogMatchesStatus ==
  /\ []StatusMatchesLatestDecision
  /\ [][(lastCall'.op = "resolve_interrupt" /\ lastCall'.payload # None) =>
          LET r == lastCall'.review_id
          IN /\ Len(decisions') = Len(decisions) + 1
             /\ decisions'[Len(decisions')].review_id = r
             /\ decisions'[Len(decisions')].decision = lastCall'.payload.decision
             /\ r \in 1..Len(reviews')
             /\ reviews'[r].status = lastCall'.payload.decision]_vars

\* C5: resolve_interrupt followed by resume of the suspended machine leaves
\* the checkpoint with hitl_status equal to the decision passed in and
\* hitl_feedback carrying the feedback and edits passed in.
C5_RoundTrip ==
  [][(/\ lastCall'.op = "handle_hitl_response"
      /\ lastCall'.args.decision \in KnownDecisions
      /\ lastCall'.execution_id \in 1..Len(executions)
      /\ lastCall'.payload # None
      /\ Suspended(Db, lastCall'.execution_id)) =>
       LET v == get_state([checkpoints |-> checkpoints'],
                          executions[lastCall'.execution_id].thread_id)
       IN /\ v.hitl_status = lastCall'.args.decision
          /\ v.hitl_feedback # None
          /\ v.hitl_feedback.decision = lastCall'.args.decision
          /\ v.hitl_feedback.feedback = lastCall'.args.feedback
          /\ v.hitl_feedback.edits = lastCall'.args.edits]_vars

\* the ambiguity review was answered and now the final review has been too
C5_Witness ==
  /\ lastCall.op = "handle_hitl_response"
  /\ lastCall.args.decision = "revision_requested"
  /\ lastCall.trace # <<>>
  /\ lastCall.trace[1] = "hitl_final_review"
  /\ Len(reviews) = 2
  /\ reviews[1].review_type = "ambiguity_review"
  /\ reviews[1].status = "rejected"
  /\ ValuesOf(Db, lastCall.execution_id).hitl_status = "revision_requested"
  /\ ValuesOf(Db, lastCall.execution_id).hitl_feedback.edits # None

\* C6: every execution suspended at an interrupt point is referenced by
\* exactly one pending HITLReview.
C6_SuspendedHasOnePendingReview ==
  \A e \in 1..Len(executions) :
    Suspended(Db, e) => Cardinality(PendingReviewsOf(e)) = 1

\* the latest execution dispatched for the phase, 0 when there is none
CurrentExecution(phase_type) ==
  LET of == {i \in 1..Len(executions) : executions[i].phase = phase_type}
  IN IF of = {} THEN 0 ELSE CHOOSE i \in of : \A j \in of : j <= i

\* C7: a phase is 'hitl_review' exactly when a non-terminal review
\* references its current execution.
C7_HitlReviewIffOpenReview ==
  \A p \in PhaseTypes :
    phases[p].status = "hitl_review" <=>
      \E r \in 1..Len(reviews) :
        /\ reviews[r].status \in {"pending", "in_review"}
        /\ reviews[r].execution_id = CurrentExecution(p)

NoReviewSequence ==
  <<"load_document", "retrieve_context", "extract_requirements", "classify_requirements",
    "detect_ambiguities", "refine_requirements", "build_traceability",
    "generate_spec_document">>

Contains(seq, x) == \E i \in 1..Len(seq) : seq[i] = x

\* C8: with at least one ambiguity detected, execute returns suspended at
\* hitl_ambiguity_review before refinement, and get_state shows ambiguities,
\* hitl_status None and a phase_status of 'hitl_review'.
C8_SuspendsBeforeAmbiguityReview ==
  (/\ lastCall.op \in StartOps
   /\ lastCall.error = "none"
   /\ ValuesOf(Db, lastCall.execution_id).ambiguities # <<>>) =>
     LET e == lastCall.execution_id
         v == ValuesOf(Db, e)
     IN /\ lastCall.outcome = "interrupted"
        /\ checkpoints[executions[e].thread_id].next = "hitl_ambiguity_review"
        /\ v.hitl_status = NoneStr
        /\ ~Contains(lastCall.trace, "refine_requirements")
        /\ v.phase_status = "hitl_review"

\* C9: with no ambiguity detected, the run executes load_document ...
\* detect_ambiguities, refine_requirements, build_traceability and
\* generate_spec_document in this order, never enters hitl_ambiguity_review,
\* and suspends at hitl_final_review with hitl_status None.
C9_NoAmbiguitySkipsReview ==
  (/\ lastCall.op \in StartOps
   /\ lastCall.error = "none"
   /\ ValuesOf(Db, lastCall.execution_id).ambiguities = <<>>) =>
     LET e == lastCall.execution_id
         v == ValuesOf(Db, e)
     IN /\ lastCall.trace = NoReviewSequence
        /\ lastCall.outcome = "interrupted"
        /\ checkpoints[executions[e].thread_id].next = "hitl_final_review"
        /\ v.hitl_status = NoneStr

C9_Witness ==
  /\ lastCall.op = "start_phase"
  /\ lastCall.error = "none"
  /\ lastCall.outcome = "interrupted"
  /\ ValuesOf(Db, lastCall.execution_id).ambiguities = <<>>
  /\ ValuesOf(Db, lastCall.execution_id).current_node = "generate_spec_document"

SeqToSet(seq) == {seq[i] : i \in 1..Len(seq)}

AllRequirements(values) ==
  values.functional_requirements \o values.non_functional_requirements

\* C10: refinement after a resume changes exactly what the edits name: an
\* edited requirement gets the listed fields and keeps the others, the other
\* requirements are unchanged, no edits leave both lists identical, and a
\* final review answered 'revision_requested' routes back to refinement.
C10_RefineAppliesExactlyTheEdits ==
  [][(/\ lastCall'.op = "handle_hitl_response"
      /\ lastCall'.execution_id \in 1..Len(executions)
      /\ lastCall'.payload # None
      /\ Suspended(Db, lastCall'.execution_id)) =>
       LET e == lastCall'.execution_id
           before == ValuesOf(Db, e)
           after == get_state([checkpoints |-> checkpoints'], executions[e].thread_id)
           edits == lastCall'.args.edits
           Edited(r) == IF r.id \in DOMAIN edits THEN Merge(r, edits[r.id]) ELSE r
       IN /\ (lastCall'.trace[1] = "hitl_final_review"
              /\ lastCall'.args.decision = "revision_requested") =>
                (Len(lastCall'.trace) >= 2 /\ lastCall'.trace[2] = "refine_requirements")
          /\ Contains(lastCall'.trace, "refine_requirements") =>
               IF edits = None
               THEN /\ after.functional_requirements = before.functional_requirements
                    /\ after.non_functional_requirements = before.non_functional_requirements
               ELSE /\ Len(AllRequirements(after)) = Len(AllRequirements(before))
                    /\ SeqToSet(AllRequirements(after))
                         = {Edited(r) : r \in SeqToSet(AllRequirements(before))}]_vars

\* the phase_status a result carries, None when it carries none
ResultStatus(result) ==
  IF "phase_status" \in DOMAIN result THEN result.phase_status ELSE NoneStr

\* C11: a result whose phase_status is not 'completed', or that carries no
\* phase_status, causes no transition in _handle_agent_completion: execution,
\* phase and project statuses, deliverables and events are unchanged.
C11_NoTransitionUnlessCompleted ==
  [][(/\ lastCall'.op = "_handle_agent_completion"
      /\ ResultStatus(lastCall'.args.result) # "completed") =>
       /\ executions' = executions
       /\ phases' = phases
       /\ project' = project
       /\ deliverables' = deliverables
       /\ versions' = versions
       /\ events' = events]_vars

PhaseCompletedEvents(evs, phase_type) ==
  {i \in 1..Len(evs) : evs[i].event_type = "phase.completed"
                        /\ evs[i].data.phase_type = phase_type}

\* C12: across start_project, start_phase and handle_hitl_response calls,
\* a review answered more than once included, phase.completed is published
\* at most once per phase (each phase completes at most once).
C12_PhaseCompletesOnce ==
  \A p \in PhaseTypes : Cardinality(PhaseCompletedEvents(events, p)) <= 1

\* C13: persisting the same completed result twice leaves at most one
\* Deliverable per (phase, deliverable_type).
C13_OneDeliverablePerType ==
  \A i, j \in 1..Len(deliverables) :
    (/\ deliverables[i].phase = deliverables[j].phase
     /\ deliverables[i].deliverable_type = deliverables[j].deliverable_type) => i = j

DeliverableFields == {"requirements_spec", "traceability_matrix"}

\* the recognized deliverable fields present and non-empty in a result
FilledFields(result) ==
  {f \in DeliverableFields : f \in DOMAIN result /\ result[f] # None /\ result[f] # <<>>}

\* every Deliverable belongs to a phase for which phase.completed was published
DeliverablesOnlyForCompleted(dels, evs) ==
  \A i \in 1..Len(dels) : PhaseCompletedEvents(evs, dels[i].phase) # {}

\* C14: processing a 'completed' result creates, for each recognized field
\* that is present and non-empty, exactly one Deliverable with
\* current_version 1 and one DeliverableVersion with version_number 1, and
\* none for an absent or empty field; a Deliverable exists only for a phase
\* that reached 'completed'.
C14_OneDeliverablePerFilledField ==
  [][/\ DeliverablesOnlyForCompleted(deliverables', events')
     /\ (/\ lastCall'.op = "_handle_agent_completion"
         /\ ResultStatus(lastCall'.args.result) = "completed") =>
          LET p == executions[lastCall'.args.execution_id].phase
              fields == FilledFields(lastCall'.args.result)
              created == (Len(deliverables) + 1)..Len(deliverables')
          IN /\ Len(deliverables') = Len(deliverables) + Cardinality(fields)
             /\ Len(versions') = Len(versions) + Cardinality(fields)
             /\ SubSeq(deliverables', 1, Len(deliverables)) = deliverables
             /\ SubSeq(versions', 1, Len(versions)) = versions
             /\ \A i \in created :
                  /\ deliverables'[i].phase = p
                  /\ deliverables'[i].deliverable_type \in fields
                  /\ deliverables'[i].current_version = 1
                  /\ Cardinality({v \in (Len(versions) + 1)..Len(versions') :
                                    versions'[v].deliverable_id = i}) = 1
                  /\ \A v \in (Len(versions) + 1)..Len(versions') :
                       versions'[v].deliverable_id = i => versions'[v].version_number = 1
             /\ \A f \in fields :
                  Cardinality({i \in created : deliverables'[i].deliverable_type = f}) = 1]_vars

\* a completed result with an empty traceability matrix gave one Deliverable
C14_Witness ==
  /\ lastCall.op = "_handle_agent_completion"
  /\ lastCall.args.result = [phase_status |-> "completed", requirements_spec |-> SpecDoc,
                             traceability_matrix |-> <<>>]
  /\ Len(deliverables) = 1
  /\ deliverables[1].deliverable_type = "requirements_spec"
  /\ Len(versions) = 1
  /\ versions[1].version_number = 1

NonTerminalExecutions(phase_type) ==
  {i \in 1..Len(executions) : executions[i].phase = phase_type
                               /\ executions[i].status \in {"initialized", "running"}}

\* C15: each phase has at most one AgentExecution in a non-terminal status
\* (initialized or running), and a phase in status in_progress has exactly one.
C15_OneNonTerminalExecutionPerPhase ==
  \A p \in PhaseTypes :
    /\ Cardinality(NonTerminalExecutions(p)) <= 1
    /\ phases[p].status = "in_progress" => Cardinality(NonTerminalExecutions(p)) = 1

\* C16: an execution's thread_id never changes after start_phase assigned
\* it; a resume issued by handle_hitl_response creates no execution and no
\* thread and writes only the checkpoint of the execution's own thread_id.
C16_ThreadIdImmutable ==
  [][/\ Len(executions') >= Len(executions)
     /\ \A i \in 1..Len(executions) : executions'[i].thread_id = executions[i].thread_id
     /\ lastCall'.op = "handle_hitl_response" =>
          /\ Len(executions') = Len(executions)
          /\ DOMAIN checkpoints' = DOMAIN checkpoints
          /\ \A t \in DOMAIN checkpoints :
               checkpoints'[t] # checkpoints[t] =>
                 /\ lastCall'.execution_id \in 1..Len(executions)
                 /\ t = executions[lastCall'.execution_id].thread_id]_vars

\* a resume of the first of two executions ran nodes and suspended again
C16_Witness ==
  /\ lastCall.op = "handle_hitl_response"
  /\ lastCall.execution_id = 1
  /\ lastCall.outcome = "interrupted"
  /\ lastCall.trace # <<>>
  /\ Len(executions) = 2
  /\ Cardinality(DOMAIN checkpoints) = 2
  /\ checkpoints[executions[1].thread_id].values.hitl_status # NoneStr

\* C17: at most one execute or resume is in flight for a thread_id at any
\* time: two handle_hitl_response calls for the same review, or for two
\* reviews of one execution, never both resume the same thread.
C17_OneResumeInFlightPerThread ==
  \A i, j \in 1..Len(inflight) : inflight[i].thread_id = inflight[j].thread_id => i = j

\* C18: while an execution is suspended at an interrupt, the checkpoint of
\* its thread_id changes only by a resume for that thread; get_state returns
\* the last checkpointed values and changes neither checkpoints nor rows.
C18_SuspendedUntilResume ==
  [][/\ \A e \in 1..Len(executions) :
          (/\ Suspended(Db, e)
           /\ ~(lastCall'.op = "handle_hitl_response" /\ lastCall'.execution_id = e)) =>
             /\ executions[e].thread_id \in DOMAIN checkpoints'
             /\ checkpoints'[executions[e].thread_id] = checkpoints[executions[e].thread_id]
     /\ lastCall'.op = "get_state" =>
          /\ lastCall'.payload =
               IF lastCall'.args.thread_id \in DOMAIN checkpoints
               THEN checkpoints[lastCall'.args.thread_id].values
               ELSE <<>>
          /\ checkpoints' = checkpoints
          /\ executions' = executions
          /\ phases' = phases
          /\ reviews' = reviews
          /\ events' = events]_vars

\* the state of an execution suspended at the ambiguity review, with its
\* review created, was read
C18_Witness ==
  /\ lastCall.op = "get_state"
  /\ lastCall.args.thread_id \in DOMAIN checkpoints
  /\ checkpoints[lastCall.args.thread_id].next = "hitl_ambiguity_review"
  /\ lastCall.payload # <<>>
  /\ lastCall.payload.ambiguities # <<>>
  /\ Len(reviews) >= 1
  /\ reviews[1].status = "pending"

\* a phase type outside the assignment table
UnknownPhaseTypes == {"deployment"}

\* C19: start_phase on a phase whose type has no agent in the assignment
\* table fails before any effect: no AgentExecution is created, no phase
\* status changes and no event is published; unknown types are not ready.
C19_NotReadyPhaseHasNoEffect ==
  [][/\ \A t \in UnknownPhaseTypes : ~is_phase_ready(t)
     /\ (/\ lastCall'.op = "start_phase"
         /\ PHASE_AGENTS[lastCall'.args.phase_type] = NoneStr) =>
          /\ lastCall'.error = "ValueError"
          /\ executions' = executions
          /\ phases' = phases
          /\ project' = project
          /\ events' = events
          /\ checkpoints' = checkpoints]_vars

\* the testing phase was refused while the analysis phase is under way
C19_Witness ==
  /\ lastCall.op = "start_phase"
  /\ lastCall.args.phase_type = "testing"
  /\ lastCall.error = "ValueError"
  /\ phases["testing"].status = "pending"
  /\ Len(executions) = 1
  /\ phases["analysis"].status = "in_progress"

StartProjectOps == {"start_project", "ProjectService.start_project"}

\* C20: start_project, of the engine or of the project service, on a
\* project whose status is neither 'created' nor 'paused' fails with an
\* error and changes nothing: project status and current_phase, phase
\* statuses, executions and events are as before.
C20_StartRejectedOutsideCreatedPaused ==
  [][(/\ lastCall'.op \in StartProjectOps
      /\ project.status \notin {"created", "paused"}) =>
       /\ lastCall'.error = "ValueError"
       /\ project' = project
       /\ phases' = phases
       /\ executions' = executions
       /\ events' = events
       /\ checkpoints' = checkpoints]_vars

\* a second start of a project whose analysis phase has been dispatched
C20_Witness ==
  /\ lastCall.op = "start_project"
  /\ lastCall.error = "ValueError"
  /\ project.status = "analysis"
  /\ Len(executions) = 1
  /\ executions[1].status = "running"

\* C21: start_project on a project in status 'created', the analysis agent
\* running without error until it suspends, leaves the project with status
\* 'analysis' and current_phase 'analysis', the analysis phase 'in_progress'
\* and every other phase 'pending', publishes project.started and then
\* phase.started, and adds exactly one execution, for the analysis phase.
C21_StartProjectDispatchesAnalysis ==
  [][(/\ lastCall'.op = "start_project"
      /\ project.status = "created"
      /\ lastCall'.error = "none") =>
       /\ lastCall'.outcome = "interrupted"
       /\ project'.status = "analysis"
       /\ project'.current_phase = "analysis"
       /\ phases'["analysis"].status = "in_progress"
       /\ \A p \in PhaseTypes \ {"analysis"} : phases'[p].status = "pending"
       /\ Len(events') = Len(events) + 2
       /\ SubSeq(events', 1, Len(events)) = events
       /\ events'[Len(events) + 1].event_type = "project.started"
       /\ events'[Len(events) + 2].event_type = "phase.started"
       /\ Len(executions') = Len(executions) + 1
       /\ SubSeq(executions', 1, Len(executions)) = executions
       /\ executions'[Len(executions')].phase = "analysis"
       /\ executions'[Len(executions')].status = "running"
       /\ lastCall'.execution_id = Len(executions')]_vars

\* a created project has been started and its analysis agent is suspended
C21_Witness ==
  /\ lastCall.op = "start_project"
  /\ lastCall.error = "none"
  /\ lastCall.outcome = "interrupted"
  /\ project.status = "analysis"
  /\ project.current_phase = "analysis"
  /\ Len(executions) = 1
  /\ Len(events) = 2
  /\ events[1].event_type = "project.started"

\* C22: in a started project, current_phase names a phase whose status is
\* in_progress or hitl_review (pending or ready while it is being
\* dispatched); it never names a phase that is completed or failed.
C22_CurrentPhaseIsActive ==
  (project.current_phase # NoneStr) =>
    /\ project.current_phase \in PhaseTypes
    /\ phases[project.current_phase].status \in
         {"pending", "ready", "in_progress", "hitl_review"}

\* the phases for which the step publishes phase.completed
CompletingPhases(evs, evs2) ==
  {p \in PhaseTypes : PhaseCompletedEvents(evs2, p) # PhaseCompletedEvents(evs, p)}

C24_InProgressNeedsAgentAndOrder ==
  [][\A p \in PhaseTypes :
       (phases'[p].status = "in_progress" /\ phases[p].status # "in_progress") =>
         /\ PHASE_AGENTS[p] # NoneStr
         /\ \A q \in PhaseTypes :
              PhaseIndex(q) < PhaseIndex(p) => phases[q].status = "completed"]_vars

\* what the call made by the step returns when every publication succeeds
WithChannelUp(st, op, args) ==
  CASE op = "start_project" -> start_project_on(st, args.run, "up")
    [] op = "start_phase" -> start_phase_on(st, args.phase_type, args.run, "up")
    [] op = "create_interrupt" ->
         create_interrupt_on(st, args.execution_id, args.review_type, "up")
    [] op = "resolve_interrupt" ->
         resolve_interrupt_on(st, args.review_id, args.response.decision,
                              args.response.feedback, args.response.edits, NoneStr,
                              PROJECT, "up")
    [] op = "handle_hitl_response" ->
         handle_hitl_response_on(st, args.review_id, args.response.decision,
                                 args.response.feedback, args.response.edits, NoneStr,
                                 args.run, "up")

\* the rows of the database, the published events left out
RowsOf(st) ==
  <<st.project, st.phases, st.executions, st.reviews, st.decisions, st.checkpoints,
    st.deliverables, st.versions>>

\* C25: publication is fire-and-forget: a publication that fails is never
\* raised to the caller, and start_project, start_phase,
\* handle_hitl_response, create_interrupt and resolve_interrupt end with the
\* same rows and the same result whether their publications succeed or fail.
C25_PublicationFailureChangesNothing ==
  [][("channel" \in DOMAIN lastCall'.args /\ lastCall'.args.channel = "down") =>
       LET up == WithChannelUp(Db, lastCall'.op, lastCall'.args)
       IN /\ lastCall'.error = up.ret.error
          /\ <<project', phases', executions', reviews', decisions', checkpoints',
               deliverables', versions'>> = RowsOf(up.st)]_vars

\* C26: each create_interrupt adds exactly one pending review with a fresh
\* id and publishes exactly one agent.hitl.requested event carrying that
\* review_id, the review_type and a short summary of the snapshot; no
\* agent.hitl.requested event carries the content snapshot itself.
C26_OneReviewOneShortNotification ==
  [][/\ (lastCall'.op = "create_interrupt") =>
          /\ Len(reviews') = Len(reviews) + 1
          /\ SubSeq(reviews', 1, Len(reviews)) = reviews
          /\ reviews'[Len(reviews')].status = "pending"
          /\ lastCall'.review_id = Len(reviews')
          /\ Len(events') = Len(events) + 1
          /\ SubSeq(events', 1, Len(events)) = events
          /\ events'[Len(events')].event_type = "agent.hitl.requested"
          /\ events'[Len(events')].data.review_id = Len(reviews')
          /\ events'[Len(events')].data.review_type = reviews'[Len(reviews')].review_type
     /\ \A i \in (Len(events) + 1)..Len(events') :
          (events'[i].event_type = "agent.hitl.requested") =>
            /\ {"review_id", "review_type", "content_snapshot_summary"}
                 \subseteq DOMAIN events'[i].data
            /\ "content_snapshot" \notin DOMAIN events'[i].data]_vars

\* C27: both routers are total and deterministic: for every state
\* _route_ambiguity_check returns one of needs_review / no_issues and
\* _route_final_review one of approved / revision, the label depending only
\* on the field the router reads; every returned label is a key of the
\* branch map, and every declared label is returned for some state.
C27_RoutersTotal ==
  /\ (lastCall.op = "_route_ambiguity_check") =>
       /\ lastCall.error = "none"
       /\ lastCall.label \in {"needs_review", "no_issues"}
       /\ lastCall.label \in DOMAIN AmbiguityBranches
       /\ \A s \in RouterStates :
            s.ambiguities = lastCall.args.ambiguities =>
              _route_ambiguity_check(s) = lastCall.label
  /\ (lastCall.op = "_route_final_review") =>
       /\ lastCall.error = "none"
       /\ lastCall.label \in {"approved", "revision"}
       /\ lastCall.label \in DOMAIN FinalReviewBranches
       /\ \A s \in RouterStates :
            s.hitl_status = lastCall.args.hitl_status =>
              _route_final_review(s) = lastCall.label
  /\ \A label \in DOMAIN AmbiguityBranches :
       \E s \in RouterStates : _route_ambiguity_check(s) = label
  /\ \A label \in DOMAIN FinalReviewBranches :
       \E s \in RouterStates : _route_final_review(s) = label

\* the final-review router has been given a rejected review
C27_Witness ==
  /\ lastCall.op = "_route_final_review"
  /\ lastCall.args.hitl_status = "rejected"
  /\ lastCall.args.ambiguities # <<>>
  /\ lastCall.label = "revision"
  /\ FinalReviewBranches[lastCall.label] = "refine_requirements"

\* C28: a state that matches none of a router's branch conditions (for the
\* final-review router, a hitl_status that is neither 'approved' nor a
\* revision request) fails with a RoutingError; the router never falls
\* back to a default branch.
C28_UnmatchedStateRaises ==
  (/\ lastCall.op = "_route_final_review"
   /\ lastCall.args.hitl_status \notin {"approved", "rejected", "revision_requested"}) =>
    lastCall.error = "RoutingError"

\* the rows of the deliverable's versions that carry the given number
VersionRows(vers, deliverable_id, n) ==
  {i \in 1..Len(vers) : vers[i].deliverable_id = deliverable_id /\ vers[i].version_number = n}

\* the version numbers of each deliverable are 1..current_version, each once
VersionsContiguous(dels, vers) ==
  \A d \in 1..Len(dels) :
    /\ \A i \in 1..Len(vers) :
         vers[i].deliverable_id = d => vers[i].version_number \in 1..dels[d].current_version
    /\ \A n \in 1..dels[d].current_version : Cardinality(VersionRows(vers, d, n)) = 1

\* C29: after any sequence of create_deliverable and add_version calls,
\* add_version calls interleaved between their read of current_version and
\* their write included, the version numbers of a deliverable are exactly
\* 1..current_version with no gap and no duplicate, and no existing version
\* row is changed.
C29_VersionsContiguous ==
  [][/\ Len(versions') >= Len(versions)
     /\ SubSeq(versions', 1, Len(versions)) = versions
     /\ (inflight' = <<>>) => VersionsContiguous(deliverables', versions')]_vars

\* C30: whenever a subscription made with subscribe or subscribe_all ends,
\* for any reason (the consumer stops, the task is cancelled, an error is
\* raised while listening or while handling an event), its channel is
\* unsubscribed and closed: no ended subscription keeps its channel.
C30_EndedSubscriptionReleased ==
  \A i \in 1..Len(subscriptions) :
    (subscriptions[i].status = "ended") =>
      /\ ~subscriptions[i].subscribed
      /\ ~subscriptions[i].open

\* get_next_phase applied n times, starting from the first phase type
RECURSIVE NthPhase(_)
NthPhase(n) == IF n = 0 THEN PHASE_ORDER[1] ELSE get_next_phase(NthPhase(n - 1))

\* C31: starting from the first phase type, repeated get_next_phase visits
\* analysis, design, development, testing in that order, revisits no phase
\* type and gives None after exactly Len(PHASE_ORDER) applications;
\* get_next_phase gives None only for the last phase type of the order.
C31_TraversalReachesNone ==
  /\ PHASE_ORDER = <<"analysis", "design", "development", "testing">>
  /\ \A n \in 0..(Len(PHASE_ORDER) - 1) : NthPhase(n) = PHASE_ORDER[n + 1]
  /\ \A n, m \in 0..(Len(PHASE_ORDER) - 1) : NthPhase(n) = NthPhase(m) => n = m
  /\ NthPhase(Len(PHASE_ORDER)) = NoneStr
  /\ (lastCall.op = "get_next_phase") =>
       (lastCall.next = NoneStr <=>
          lastCall.args.current_phase = PHASE_ORDER[Len(PHASE_ORDER)])

\* get_next_phase has been asked about the last phase of the order
C31_Witness ==
  /\ lastCall.op = "get_next_phase"
  /\ lastCall.args.current_phase = "testing"
  /\ lastCall.next = NoneStr
  /\ NthPhase(3) = "testing"

\* C32: a project as create_project leaves it has status 'created' and
\* exactly four phases whose types, by phase_order, are analysis, design,
\* development, testing; all four are 'pending' and only the analysis phase
\* has an agent, the one get_agent_for_phase gives for each phase type.
C32_CreatedProjectHasDefaultPhases ==
  (lastCall.op = "create_project") =>
    /\ project.status = "created"
    /\ Len(create_project_phases) = 4
    /\ Cardinality(DOMAIN phases) = 4
    /\ DOMAIN phases = PhaseTypes
    /\ \A t \in DOMAIN phases :
         /\ phases[t].phase_order \in 1..Len(PHASE_ORDER)
         /\ PHASE_ORDER[phases[t].phase_order] = t
         /\ phases[t].status = "pending"
         /\ (phases[t].agent_name # NoneStr) <=> (t = "analysis")
         /\ phases[t].agent_name = get_agent_for_phase(t)

\* the project as it is right after create_project
C32_Witness ==
  /\ lastCall.op = "create_project"
  /\ project.status = "created"
  /\ project.current_phase = NoneStr
  /\ phases["analysis"].agent_name = "ryan"
  /\ executions = <<>>

\* C33: ProjectService.start_project on a project in status 'created' or
\* 'paused' sets status and current_phase to 'analysis' and the analysis
\* phase to 'ready', leaves every other phase as it was and creates no
\* execution.
C33_ServiceStartMarksAnalysisReady ==
  [][(/\ lastCall'.op = "ProjectService.start_project"
      /\ project.status \in {"created", "paused"}) =>
       /\ lastCall'.error = "none"
       /\ project'.status = "analysis"
       /\ project'.current_phase = "analysis"
       /\ phases'["analysis"].status = "ready"
       /\ \A t \in PhaseTypes \ {"analysis"} : phases'[t] = phases[t]
       /\ executions' = executions
       /\ checkpoints' = checkpoints
       /\ events' = events]_vars

\* a paused project whose analysis phase had been dispatched is started
\* again through the project service
C33_Witness ==
  /\ lastCall.op = "ProjectService.start_project"
  /\ lastCall.error = "none"
  /\ project.status = "analysis"
  /\ phases["analysis"].status = "ready"
  /\ Len(executions) = 1

\* C34: a run reaches finalize_deliverables only by resuming the machine
\* suspended at hitl_final_review with the decision 'approved': no run gets
\* there from the start node or from the ambiguity review without stopping
\* at the final review, and any other final-review decision goes back to
\* refine_requirements and not to completion.
C34_FinalizeOnlyAfterApproval ==
  /\ Contains(lastCall.trace, "finalize_deliverables") =>
       /\ lastCall.op = "handle_hitl_response"
       /\ lastCall.trace = <<"hitl_final_review", "finalize_deliverables">>
       /\ lastCall.args.decision = "approved"
  /\ (/\ lastCall.op = "handle_hitl_response"
      /\ lastCall.trace # <<>>
      /\ lastCall.trace[1] = "hitl_final_review"
      /\ lastCall.args.decision # "approved") =>
       /\ Len(lastCall.trace) >= 2
       /\ lastCall.trace[2] = "refine_requirements"
       /\ ~Contains(lastCall.trace, "finalize_deliverables")
       /\ executions[lastCall.execution_id].status # "completed"

\* the final review has been approved and the run has gone through
\* finalize_deliverables
C34_Witness ==
  /\ lastCall.op = "handle_hitl_response"
  /\ lastCall.args.decision = "approved"
  /\ lastCall.trace = <<"hitl_final_review", "finalize_deliverables">>
  /\ executions[lastCall.execution_id].status = "completed"
  /\ phases["analysis"].status = "completed"

\* C35: terminal statuses are absorbing: an execution that is 'completed'
\* or 'failed' keeps its status, and a phase that is 'completed' never goes
\* back to 'in_progress' or becomes 'failed', whatever calls follow.
C35_TerminalStatusesAbsorbing ==
  [][/\ \A e \in 1..Len(executions) :
          executions[e].status \in {"completed", "failed"} =>
            executions'[e].status = executions[e].status
     /\ \A p \in PhaseTypes :
          phases[p].status = "completed" =>
            phases'[p].status \notin {"in_progress", "failed"}]_vars

\* C36: handle_hitl_response is all-or-nothing for the review: a call that
\* fails (unknown review, review without execution, the agent's resume
\* raising) leaves the reviews as they were, appends no ReviewDecision and
\* publishes no agent.hitl.resolved.
C36_FailedResponseLeavesReview ==
  [][(/\ lastCall'.op = "handle_hitl_response"
      /\ lastCall'.error # "none") =>
       /\ reviews' = reviews
       /\ decisions' = decisions
       /\ EventCount(events', "agent.hitl.resolved", 0) =
            EventCount(events, "agent.hitl.resolved", 0)]_vars

\* the ids of the requirements in the two classified lists
RequirementIds(values) == {r.id : r \in SeqToSet(AllRequirements(values))}

\* C37: refine_requirements never adds or drops a requirement: whatever the
\* edits (an unknown id, a changed category or id, edits applied again on a
\* later cycle), the ids in functional_requirements plus
\* non_functional_requirements after the node are those before it, and
\* applying the same edits a second time changes nothing.
C37_RefineKeepsRequirementIds ==
  [][(/\ lastCall'.op = "handle_hitl_response"
      /\ lastCall'.execution_id \in 1..Len(executions)
      /\ lastCall'.payload # None
      /\ Suspended(Db, lastCall'.execution_id)
      /\ Contains(lastCall'.trace, "refine_requirements")) =>
       LET e == lastCall'.execution_id
           before == ValuesOf(Db, e)
           after == get_state([checkpoints |-> checkpoints'], executions[e].thread_id)
           again == refine_requirements(after)
       IN /\ RequirementIds(after) = RequirementIds(before)
          /\ again.functional_requirements = after.functional_requirements
          /\ again.non_functional_requirements = after.non_functional_requirements]_vars

\* an event of the given type comes before position i
Precedes(evs, i, event_type) ==
  \E j \in 1..(i - 1) : evs[j].event_type = event_type

\* C38: the published events follow the order of the transitions:
\* project.started comes before every phase.started; for each execution
\* phase.started comes before its agent.error or phase.completed, and at
\* most one of those two is published for it; phase.completed of a phase
\* comes before phase.started of the next one; project.completed comes
\* only after phase.completed of the last phase.
C38_EventsFollowTransitions ==
  /\ \A i \in 1..Len(events) :
       /\ (events[i].event_type = "phase.started") =>
            /\ Precedes(events, i, "project.started")
            /\ PhaseIndex(events[i].data.phase_type) > 1 =>
                 \E j \in 1..(i - 1) :
                   /\ events[j].event_type = "phase.completed"
                   /\ get_next_phase(events[j].data.phase_type) = events[i].data.phase_type
       /\ (events[i].event_type \in {"agent.error", "phase.completed"}) =>
            \E j \in 1..(i - 1) :
              /\ events[j].event_type = "phase.started"
              /\ events[j].execution_id = events[i].execution_id
       /\ (events[i].event_type = "project.completed") =>
            \E j \in 1..(i - 1) :
              /\ events[j].event_type = "phase.completed"
              /\ events[j].data.phase_type = PHASE_ORDER[Len(PHASE_ORDER)]
  /\ \A e \in 1..Len(executions) :
       EventCount(events, "agent.error", e) + EventCount(events, "phase.completed", e) <= 1

\* C39: when no node raises, every suspension is answered through
\* handle_hitl_response and the reviewer ends up approving the final
\* review, the analysis execution reaches finalize_deliverables and its
\* phase and execution become 'completed', after any number of revision
\* cycles.
C39_ApprovedRunCompletes ==
  (Len(executions) >= 1) ~>
    (/\ Len(executions) >= 1
     /\ executions[1].status = "completed"
     /\ phases["analysis"].status = "completed"
     /\ Contains(lastCall.trace, "finalize_deliverables"))

\* the execution has completed after as many revision cycles as the
\* reviewer was allowed
C39_Witness ==
  /\ Len(executions) = 1
  /\ executions[1].status = "completed"
  /\ phases["analysis"].status = "completed"
  /\ lastCall.trace = <<"hitl_final_review", "finalize_deliverables">>
  /\ Answers = MaxRevisions + 1

\* --------------------------------------------- WebSocket endpoint steps
ManagerReturns(op, args, m, error) ==
  /\ manager' = m
  /\ lastCall' = Merge(NoRet, [op |-> op, args |-> args, error |-> error])
  /\ UNCHANGED <<project, phases, executions, reviews, decisions, events, checkpoints,
                 deliverables, versions, inflight, subscriptions>>

RunningTasks == {t \in 1..Len(manager.tasks) : manager.tasks[t].status = "running"}

\* websocket_endpoint is entered: manager.connect(websocket, project_id)
Connect ==
  \E websocket \in WebSockets, project_id \in ProjectIds :
    /\ manager.endpoints[websocket].state = "new"
    /\ ManagerReturns("connect", [websocket |-> websocket, project_id |-> project_id],
                      [connect(manager, websocket, project_id)
                         EXCEPT !.endpoints[websocket].state = "open",
                                !.endpoints[websocket].project_id = project_id],
                      "none")

\* the client of an open connection goes away: from now on send_json raises
\* and receive_text raises WebSocketDisconnect
ClientLeaves ==
  \E websocket \in WebSockets :
    /\ manager.endpoints[websocket].state = "open"
    /\ manager.endpoints[websocket].alive
    /\ ManagerReturns("client_leaves", [websocket |-> websocket],
                      [manager EXCEPT !.endpoints[websocket].alive = FALSE], "none")

\* websocket_endpoint catches WebSocketDisconnect and calls
\* manager.disconnect(websocket, project_id); the endpoint ends either way
EndpointDisconnect ==
  \E websocket \in WebSockets :
    /\ manager.endpoints[websocket].state = "open"
    /\ ~manager.endpoints[websocket].alive
    /\ LET r == disconnect(manager, websocket, manager.endpoints[websocket].project_id)
       IN  ManagerReturns("disconnect", [websocket |-> websocket],
                          [r.m EXCEPT !.endpoints[websocket].state = "closed"], r.error)

\* an event arrives at a listening subscriber task, which enters
\* broadcast_to_project
Deliver ==
  \E t \in RunningTasks :
    /\ manager.tasks[t].pc = "listening"
    /\ ManagerReturns("broadcast_to_project", [task |-> t],
                      [manager EXCEPT !.tasks[t].pc = "sending"], "none")

\* the loop over the connections sends to the next one
BroadcastSend ==
  \E t \in RunningTasks :
    /\ manager.tasks[t].pc = "sending"
    /\ manager.tasks[t].index
         < Len(Get(manager.active_connections, manager.tasks[t].project_id, <<>>))
    /\ ManagerReturns("send_json", [task |-> t], broadcast_send(manager, t), "none")

\* the loop over the connections is over: the dead ones are disconnected
BroadcastCleanup ==
  \E t \in RunningTasks :
    /\ manager.tasks[t].pc = "sending"
    /\ manager.tasks[t].index
         >= Len(Get(manager.active_connections, manager.tasks[t].project_id, <<>>))
    /\ LET r == broadcast_cleanup(manager, manager.tasks[t].dead, manager.tasks[t].project_id)
       IN  ManagerReturns("broadcast_cleanup", [task |-> t],
                          _subscribe_to_events_next(r.m, t, r.error), r.error)

\* a cancelled task gets its CancelledError, which _subscribe_to_events
\* catches
TaskCancelled ==
  \E t \in 1..Len(manager.tasks) :
    /\ manager.tasks[t].status = "cancelling"
    /\ ManagerReturns("task_cancelled", [task |-> t],
                      [manager EXCEPT !.tasks[t].status = "done"], "none")

NextWebsocket ==
  \/ Connect
  \/ ClientLeaves
  \/ EndpointDisconnect
  \/ Deliver
  \/ BroadcastSend
  \/ BroadcastCleanup
  \/ TaskCancelled

\* Redis stays up: listening never raises
SpecWebsocket == Init /\ [][NextWebsocket]_vars

ActiveConnections(project_id) == Get(manager.active_connections, project_id, <<>>)

LiveTasks(project_id) == {t \in RunningTasks : manager.tasks[t].project_id = project_id}

AtMostOneLiveTask == \A project_id \in ProjectIds : Cardinality(LiveTasks(project_id)) <= 1

LiveTaskWhileConnected ==
  \A project_id \in ProjectIds :
    (LiveTasks(project_id) # {}) <=> (ActiveConnections(project_id) # <<>>)

NoEmptyConnectionList ==
  \A project_id \in DOMAIN manager.active_connections :
    manager.active_connections[project_id] # <<>>

DisconnectNeverRaises == lastCall.error # "ValueError"

\* C40: under any interleaving of connect, disconnect and
\* broadcast_to_project, a project has at most one live subscriber task, it
\* has one exactly while it has an active connection, active_connections
\* holds no empty list, and disconnect never raises for a connection that
\* was already removed.
C40_ConnectionManagerConsistent ==
  /\ AtMostOneLiveTask
  /\ LiveTaskWhileConnected
  /\ NoEmptyConnectionList
  /\ DisconnectNeverRaises

====
